---------------------------- MODULE Spec2Model ----------------------------
(***************************************************************************)
(* Status/event distribution core of the MTDome GUI:                       *)
(*   Status   (status.py)   last-known discrete state                      *)
(*   Signal*  (signals.py)  the declared channels                          *)
(*   Reporter (reporter.py) report_* operations, change detection          *)
(*   Model    (model.py)    connection lifecycle, periodic tasks, polls    *)
(*                                                                         *)
(* The enumerations of lsst.ts.xml (MTDome) and the sizes exported by      *)
(* lsst.ts.mtdomecom are libraries outside the repository; their members   *)
(* are written here with the values the library gives them.                *)
(***************************************************************************)
EXTENDS Integers, Sequences, FiniteSets, TLC

(***************************************************************************)
(* Sizes.  The library's MON_NUM_SENSORS, CBCS_NUM_CAPACITOR_BANKS and     *)
(* APSCS_NUM_SHUTTERS are scaled down; the other numbers bound the inputs. *)
(***************************************************************************)
MON_NUM_SENSORS == 2

CBCS_NUM_CAPACITOR_BANKS == 2

APSCS_NUM_SHUTTERS == 2

LCS_NUM_LOUVERS == 2

RAD_NUM_DOORS == 2

\* Largest bitmask value given to the locking-pin and brake reports.
MaxBitmask == 1

\* Telemetry samples are 0..MaxSample (0 is the all-zero sample).
MaxSample == 1

\* Configuration values (jmax, amax, vmax) are 0..MaxConfig.
MaxConfig == 1

\* connect() is called at most MaxConnects times, each constructing an MTDomeCom.
MaxConnects == 2

\* Messages in one status reply.
MaxMessages == 2

\* Reactions of the panels scheduled and not yet run.
MaxPending == 4

\* A TabFigure is constructed with num_realtime in 0..MaxRealtime.
MaxRealtime == 2

\* A TabSelector is constructed with MaxButtons names.
MaxButtons == 3

(***************************************************************************)
(* Enumerations of lsst.ts.xml.enums.MTDome.                               *)
(***************************************************************************)
EnabledState == ("DISABLED" :> 1) @@ ("ENABLED" :> 2) @@ ("FAULT" :> 3)

EnabledStateValues == {EnabledState[n] : n \in DOMAIN EnabledState}

PowerManagementMode ==
    ("NO_POWER_MANAGEMENT" :> 1) @@ ("OPERATIONS" :> 2) @@ ("EMERGENCY" :> 3)
        @@ ("MAINTENANCE" :> 4)

PowerManagementModeValues == {PowerManagementMode[n] : n \in DOMAIN PowerManagementMode}

OperationalMode == ("NORMAL" :> 1) @@ ("DEGRADED" :> 2)

OperationalModeValues == {OperationalMode[n] : n \in DOMAIN OperationalMode}

\* Members of MTDome.SubSystemId in definition order.
SubSystemId == <<"AMCS", "LWSCS", "APSCS", "LCS", "THCS", "MONCS", "RAD", "CSCS", "OBC">>

SubSystemIds == {SubSystemId[i] : i \in 1..Len(SubSystemId)}

\* Members of MTDome.MotionState used by the reports.
MotionStateNames ==
    {"CLOSED", "CRAWLING", "MOVING", "OPEN", "PARKED", "PARKING", "STOPPED",
     "STOPPING", "STOPPING_BRAKING", "STOPPED_BRAKED"}

(***************************************************************************)
(* Status (status.py).                                                     *)
(***************************************************************************)
CapacitorBankFlags ==
    {"fuseIntervention", "smokeDetected", "highTemperature", "lowResidualVoltage", "doorOpen"}

ConfigDefault == [jmax |-> 0, amax |-> 0, vmax |-> 0]

StatusDefault ==
    [interlocks        |-> [i \in 1..MON_NUM_SENSORS |-> FALSE],
     state             |-> [lockingPinsEngaged |-> -1,
                            brakeEngaged       |-> -1,
                            azimuthAxis        |-> 0,
                            elevationAxis      |-> 0,
                            apertureShutter    |-> 0,
                            powerMode          |-> 0],
     operational_modes |-> [i \in 1..Len(SubSystemId) |-> 0],
     capacitor_bank    |-> [f \in CapacitorBankFlags |->
                               [i \in 1..CBCS_NUM_CAPACITOR_BANKS |-> FALSE]],
     config_amcs       |-> ConfigDefault,
     config_lwscs      |-> ConfigDefault]

StateFields == DOMAIN StatusDefault.state

(***************************************************************************)
(* Channels (signals.py): <<group, signal>> for every declared signal, the *)
(* group named as in Reporter.signals.                                     *)
(***************************************************************************)
SignalInterlock == {<<"interlock", f>> : f \in {"interlock", "locking_pins_engaged"}}

SignalState ==
    {<<"state", f>> : f \in {"brake_engaged", "azimuth_axis", "elevation_axis",
                              "aperture_shutter", "power_mode"}}

SignalOperationalMode == {<<"operational_mode", "subsystem_mode">>}

SignalTelemetry ==
    {<<"telemetry", f>> : f \in {"amcs", "apscs", "cbcs", "cbcs_voltage", "cscs",
                                  "lcs", "lwscs", "rad", "thcs"}}

SignalTarget ==
    {<<"target", f>> : f \in {"position_velocity_azimuth", "position_velocity_elevation"}}

SignalMotion ==
    {<<"motion", f>> : f \in {"azimuth_axis", "elevation_axis", "aperture_shutter"}}

SignalFaultCode ==
    {<<"fault_code", f>> : f \in {"azimuth_axis", "elevation_axis", "aperture_shutter"}}

SignalConfig == {<<"config", f>> : f \in {"amcs", "lwscs"}}

Channels ==
    SignalInterlock \cup SignalState \cup SignalOperationalMode \cup SignalTelemetry
        \cup SignalTarget \cup SignalMotion \cup SignalFaultCode \cup SignalConfig

\* Channels whose last delivered payload is remembered: those of the state
\* reports, the interlocks and the operational mode.
DiscreteChannels ==
    SignalState \cup SignalInterlock \cup SignalOperationalMode

VARIABLES
    status,     \* Reporter.status
    last,       \* per discrete channel: <<>> or <<payload last delivered>>
    call,       \* the operation invoked last: [op, args, changed (it changed Status),
                \* logged (the errors it logged)]
    emitted,    \* the events it published, in order: [ch, payload]
    raised,     \* the exception it raised, "" if none
    prev,       \* how the call before relates to it, and how many events that one published
    heap,       \* the list objects behind Status.interlocks: which object Status
                \* holds, which a caller kept, which a panel received last, and the
                \* value of each (followed where the sharing of objects is examined)
    loop,       \* the event loop as the panels see it: ready, the reactions
                \* scheduled and not yet run, oldest first, and shown, what the last
                \* reaction to each channel displayed (followed where the panels are
                \* examined)
    tab_figure,     \* a TabFigure widget: constructed or not yet, num_realtime, _data
                    \* (the cache, one list per legend), _figure (the points the
                    \* figure displays, per line), visible, and raised, the
                    \* exception of the call made last
    tab_selector,   \* a TabSelector widget: per button index (from 0) whether it is
                    \* checked and enabled, returned, what get_selection gave last,
                    \* and call, the method called last with its arguments
    mtdome_com,     \* Model.mtdome_com: 0 for None, else the MTDomeCom object
    client,         \* per MTDomeCom object: "none" (not constructed), "unconnected",
                    \* "connected" or "closed"
    periodic_tasks, \* Model.periodic_tasks: the list of tasks
    task,           \* the asyncio tasks that exist
    lc              \* the coroutine running connect() or disconnect()

rvars == <<status, last, call, emitted, raised, prev, heap, loop, tab_figure, tab_selector>>

mvars == <<mtdome_com, client, periodic_tasks, task, lc>>

vars == <<status, last, call, emitted, raised, prev, heap, loop, tab_figure, tab_selector,
          mtdome_com, client, periodic_tasks, task, lc>>

(***************************************************************************)
(* Reporter (reporter.py).  A running call is a record                     *)
(* [status, last, emitted, raised, log]; once raised is set the rest of    *)
(* the call is skipped, as a Python exception unwinds it.                  *)
(***************************************************************************)
Event(ch, payload) == [ch |-> ch, payload |-> payload]

\* getattr(self.signals[signal_name], signal_field).emit(payload); a signal the
\* group does not declare is an AttributeError.
Emit(R, signal_name, signal_field, payload) ==
    IF R.raised # "" THEN R
    ELSE IF <<signal_name, signal_field>> \notin Channels
        THEN [R EXCEPT !.raised = "AttributeError"]
    ELSE [R EXCEPT !.emitted = Append(@, Event(<<signal_name, signal_field>>, payload)),
                   !.last = IF <<signal_name, signal_field>> \in DiscreteChannels
                               THEN [@ EXCEPT ![<<signal_name, signal_field>>] = <<payload>>]
                               ELSE @]

\* Slip: the new value is published but never stored.
check_system_state_and_report_not_stored(R, state_field, signal_name, signal_field, value) ==
    IF R.raised # "" THEN R
    ELSE IF state_field \notin DOMAIN R.status.state THEN [R EXCEPT !.raised = "KeyError"]
    ELSE IF R.status.state[state_field] # value
        THEN Emit(R, signal_name, signal_field, value)
        ELSE R

\* Slip: the comparison with the stored value is left out.
check_system_state_and_report_not_compared(R, state_field, signal_name, signal_field, value) ==
    IF R.raised # "" THEN R
    ELSE IF state_field \notin DOMAIN R.status.state THEN [R EXCEPT !.raised = "KeyError"]
    ELSE Emit([R EXCEPT !.status.state[state_field] = value],
              signal_name, signal_field, value)

check_system_state_and_report(R, state_field, signal_name, signal_field, value) ==
    IF R.raised # "" THEN R
    ELSE IF state_field \notin DOMAIN R.status.state THEN [R EXCEPT !.raised = "KeyError"]
    ELSE IF R.status.state[state_field] # value
        THEN Emit([R EXCEPT !.status.state[state_field] = value],
                  signal_name, signal_field, value)
        ELSE R

\* Slip: the interlocks are published without being compared.
report_interlocks_not_compared(R, interlocks) ==
    IF R.raised # "" THEN R
    ELSE Emit([R EXCEPT !.status.interlocks = interlocks],
              "interlock", "interlock", interlocks)

report_interlocks(R, interlocks) ==
    IF R.raised # "" THEN R
    ELSE IF R.status.interlocks # interlocks
        THEN Emit([R EXCEPT !.status.interlocks = interlocks],
                  "interlock", "interlock", interlocks)
        ELSE R

report_state_locking_pins_engaged(R, engaged_pins) ==
    check_system_state_and_report(R, "lockingPinsEngaged", "interlock",
                                  "locking_pins_engaged", engaged_pins)

report_state_brake_engaged(R, brakes) ==
    check_system_state_and_report(R, "brakeEngaged", "state", "brake_engaged", brakes)

report_state_azimuth_axis(R, state) ==
    check_system_state_and_report(R, "azimuthAxis", "state", "azimuth_axis", state)

report_state_elevation_axis(R, state) ==
    check_system_state_and_report(R, "elevationAxis", "state", "elevation_axis", state)

report_state_aperture_shutter(R, state) ==
    check_system_state_and_report(R, "apertureShutter", "state", "aperture_shutter", state)

report_state_louvers(R, state) ==
    check_system_state_and_report(R, "louvers", "state", "louvers", state)

report_state_rear_access_door(R, state) ==
    check_system_state_and_report(R, "rearAccessDoor", "state", "rear_access_door", state)

report_state_calibration_screen(R, state) ==
    check_system_state_and_report(R, "calibrationScreen", "state", "calibration_screen",
                                  state)

report_state_power_mode(R, mode) ==
    check_system_state_and_report(R, "powerMode", "state", "power_mode", mode)

report_state_control_mode(R, mode) ==
    check_system_state_and_report(R, "controlMode", "state", "control_mode", mode)

\* enumerate(MTDome.SubSystemId) up to the member equal to subsystem.
SubSystemIndex(subsystem) ==
    IF subsystem \in SubSystemIds
        THEN CHOOSE i \in 1..Len(SubSystemId) : SubSystemId[i] = subsystem
        ELSE Len(SubSystemId)

\* Slip: the mode is published whether or not it differs from the stored one.
report_operational_mode_published_always(R, subsystem, mode) ==
    IF R.raised # "" THEN R
    ELSE Emit([R EXCEPT !.status.operational_modes[SubSystemIndex(subsystem)] = mode],
              "operational_mode", "subsystem_mode", <<subsystem, mode>>)

report_operational_mode(R, subsystem, mode) ==
    IF R.raised # "" THEN R
    ELSE IF R.status.operational_modes[SubSystemIndex(subsystem)] # mode
        THEN Emit([R EXCEPT !.status.operational_modes[SubSystemIndex(subsystem)] = mode],
                  "operational_mode", "subsystem_mode", <<subsystem, mode>>)
        ELSE R

\* capacitor_bank.pop("dcBusVoltage")
PopVoltage(capacitor_bank) ==
    [k \in DOMAIN capacitor_bank \ {"dcBusVoltage"} |-> capacitor_bank[k]]

\* Slip: the mapping is compared before the voltage is taken out of it.
report_capacitor_bank_compared_before_pop(R, capacitor_bank) ==
    IF R.raised # "" THEN R
    ELSE IF "dcBusVoltage" \notin DOMAIN capacitor_bank
        THEN [R EXCEPT !.raised = "KeyError"]
    ELSE LET r1 == Emit(R, "telemetry", "cbcs_voltage", capacitor_bank["dcBusVoltage"])
             bank == PopVoltage(capacitor_bank)
         IN  IF DOMAIN r1.status.capacitor_bank # DOMAIN capacitor_bank
                 THEN Emit([r1 EXCEPT !.status.capacitor_bank = bank],
                           "telemetry", "cbcs", bank)
                 ELSE r1

report_capacitor_bank(R, capacitor_bank) ==
    IF R.raised # "" THEN R
    ELSE IF "dcBusVoltage" \notin DOMAIN capacitor_bank
        THEN [R EXCEPT !.raised = "KeyError"]
    ELSE LET r1 == Emit(R, "telemetry", "cbcs_voltage", capacitor_bank["dcBusVoltage"])
             bank == PopVoltage(capacitor_bank)
         IN  IF r1.status.capacitor_bank # bank
                 THEN Emit([r1 EXCEPT !.status.capacitor_bank = bank],
                           "telemetry", "cbcs", bank)
                 ELSE r1

report_config_azimuth(R, config) ==
    IF R.raised # "" THEN R
    ELSE IF R.status.config_amcs # config
        THEN Emit([R EXCEPT !.status.config_amcs = config], "config", "amcs", config)
        ELSE R

report_config_elevation(R, config) ==
    IF R.raised # "" THEN R
    ELSE IF R.status.config_lwscs # config
        THEN Emit([R EXCEPT !.status.config_lwscs = config], "config", "lwscs", config)
        ELSE R

report_telemetry(R, field, telemetry) == Emit(R, "telemetry", field, telemetry)

report_target_azimuth(R, position, velocity) ==
    Emit(R, "target", "position_velocity_azimuth", <<position, velocity>>)

report_target_elevation(R, position, velocity) ==
    Emit(R, "target", "position_velocity_elevation", <<position, velocity>>)

report_motion_azimuth_axis(R, motion_state, in_position) ==
    Emit(R, "motion", "azimuth_axis", <<motion_state, in_position>>)

report_motion_elevation_axis(R, motion_state, in_position) ==
    Emit(R, "motion", "elevation_axis", <<motion_state, in_position>>)

report_motion_aperture_shutter(R, motion_states, in_positions) ==
    Emit(R, "motion", "aperture_shutter", <<motion_states, in_positions>>)

report_motion_louvers(R, motion_states, in_positions) ==
    Emit(R, "motion", "louvers", <<motion_states, in_positions>>)

report_motion_rear_access_door(R, motion_states, in_positions) ==
    Emit(R, "motion", "rear_access_door", <<motion_states, in_positions>>)

report_motion_calibration_screen(R, motion_state, in_position) ==
    Emit(R, "motion", "calibration_screen", <<motion_state, in_position>>)

report_fault_code_azimuth_axis(R, fault_code) ==
    Emit(R, "fault_code", "azimuth_axis", fault_code)

report_fault_code_elevation_axis(R, fault_code) ==
    Emit(R, "fault_code", "elevation_axis", fault_code)

report_fault_code_aperture_shutter(R, fault_code) ==
    Emit(R, "fault_code", "aperture_shutter", fault_code)

report_fault_code_louvers(R, fault_code) == Emit(R, "fault_code", "louvers", fault_code)

report_fault_code_rear_access_door(R, fault_code) ==
    Emit(R, "fault_code", "rear_access_door", fault_code)

report_fault_code_calibration_screen(R, fault_code) ==
    Emit(R, "fault_code", "calibration_screen", fault_code)

\* utils.generate_dict_from_registry: every property of the component at its
\* default.  The registry's properties are abstracted to the one key "data".
generate_dict_from_registry(component) == [data |-> 0]

\* for subsystem in MTDome.SubSystemId: report_operational_mode(subsystem, NORMAL)
RECURSIVE DefaultOperationalModes(_, _)
DefaultOperationalModes(R, i) ==
    IF i > Len(SubSystemId) THEN R
    ELSE DefaultOperationalModes(
             report_operational_mode(R, SubSystemId[i], OperationalMode["NORMAL"]), i + 1)

\* The components of the default telemetry, lower-cased to the signal's field.
DefaultTelemetryFields == <<"amcs", "lwscs", "apscs", "lcs", "thcs", "rad", "cscs">>

RECURSIVE DefaultTelemetry(_, _)
DefaultTelemetry(R, i) ==
    IF i > Len(DefaultTelemetryFields) THEN R
    ELSE DefaultTelemetry(
             report_telemetry(R, DefaultTelemetryFields[i],
                              generate_dict_from_registry(DefaultTelemetryFields[i])),
             i + 1)

Repeat(x, n) == [i \in 1..n |-> x]

report_default(R) ==
    LET r1  == Emit(R, "interlock", "interlock", R.status.interlocks)
        r2  == report_state_locking_pins_engaged(r1, 0)
        r3  == report_state_brake_engaged(r2, 0)
        r4  == report_state_azimuth_axis(r3, EnabledState["DISABLED"])
        r5  == report_state_elevation_axis(r4, EnabledState["DISABLED"])
        r6  == report_state_aperture_shutter(r5, EnabledState["DISABLED"])
        r7  == report_state_louvers(r6, EnabledState["DISABLED"])
        r8  == report_state_rear_access_door(r7, EnabledState["DISABLED"])
        r9  == report_state_calibration_screen(r8, EnabledState["DISABLED"])
        r10 == report_state_power_mode(r9, PowerManagementMode["NO_POWER_MANAGEMENT"])
        r11 == report_state_control_mode(r10, "Remote")
        r12 == DefaultOperationalModes(r11, 1)
        r13 == report_telemetry(r12, "cbcs", r12.status.capacitor_bank)
        r14 == Emit(r13, "telemetry", "cbcs_voltage", 0)
        r15 == DefaultTelemetry(r14, 1)
        r16 == report_target_azimuth(r15, 0, 0)
        r17 == report_target_elevation(r16, 0, 0)
        r18 == report_motion_azimuth_axis(r17, "STOPPED", FALSE)
        r19 == report_motion_elevation_axis(r18, "STOPPED", FALSE)
        r20 == report_motion_aperture_shutter(r19, Repeat("STOPPED", APSCS_NUM_SHUTTERS),
                                              Repeat(FALSE, APSCS_NUM_SHUTTERS))
        r21 == report_motion_louvers(r20, Repeat("STOPPED", LCS_NUM_LOUVERS),
                                     Repeat(FALSE, LCS_NUM_LOUVERS))
        r22 == report_motion_rear_access_door(r21, Repeat("STOPPED", RAD_NUM_DOORS),
                                              Repeat(FALSE, RAD_NUM_DOORS))
    IN  report_motion_calibration_screen(r22, "STOPPED", FALSE)

(***************************************************************************)
(* Model (model.py): what a poll does with the status it retrieved.  *)
(* llc_status is the reply of request_llc_status.                          *)
(***************************************************************************)
\* Members of lsst.ts.mtdomecom.LlcName.
LlcName == {"AMCS", "APSCS", "CBCS", "CSCS", "LCS", "LWSCS", "MONCS", "OBC", "RAD", "THCS"}

\* llc_name.name.lower()
Lower ==
    [AMCS |-> "amcs", APSCS |-> "apscs", CBCS |-> "cbcs", CSCS |-> "cscs", LCS |-> "lcs",
     LWSCS |-> "lwscs", MONCS |-> "moncs", OBC |-> "obc", RAD |-> "rad", THCS |-> "thcs"]

\* lsst.ts.mtdomecom.motion_state_translations
motion_state_translations == [STATIONARY |-> "STOPPED_BRAKED"]

\* Python's None where a motion state is expected.
None == "None"

\* math.degrees, to whole degrees.
DegreesPerRadian == 57

degrees(x) == x * DegreesPerRadian

_KEYS_TO_REMOVE == {"status", "timestamp", "operationalMode", "appliedConfiguration"}

\* Slip: the timestamp is not among the keys taken out.
_remove_keys_from_dict_timestamp_kept(dict_with_too_many_keys) ==
    [x \in DOMAIN dict_with_too_many_keys \ (_KEYS_TO_REMOVE \ {"timestamp"}) |->
        dict_with_too_many_keys[x]]

_remove_keys_from_dict(dict_with_too_many_keys) ==
    [x \in DOMAIN dict_with_too_many_keys \ _KEYS_TO_REMOVE |-> dict_with_too_many_keys[x]]

\* LlcNameDict maps every SubSystemId to the LlcName of the same name; a
\* component no SubSystemId maps to leaves the list empty (IndexError).
_get_subsystem_id(llc_name) == IF llc_name \in SubSystemIds THEN llc_name ELSE None

_report_operational_mode(R, llc_name, llc_status) ==
    IF R.raised # "" \/ "operationalMode" \notin DOMAIN llc_status THEN R
    ELSE IF _get_subsystem_id(llc_name) = None THEN [R EXCEPT !.raised = "IndexError"]
    ELSE IF llc_status["operationalMode"] \notin DOMAIN OperationalMode
        THEN [R EXCEPT !.raised = "KeyError"]
    ELSE report_operational_mode(R, _get_subsystem_id(llc_name),
                                 OperationalMode[llc_status["operationalMode"]])

\* Slip: vmax is left in radians.
_report_configuration_vmax_left(R, llc_name, llc_status) ==
    IF R.raised # "" \/ "appliedConfiguration" \notin DOMAIN llc_status THEN R
    ELSE LET configuration ==
                 [name \in DOMAIN llc_status["appliedConfiguration"] |->
                     IF name \in {"jmax", "amax"}
                         THEN degrees(llc_status["appliedConfiguration"][name])
                         ELSE llc_status["appliedConfiguration"][name]]
         IN  IF llc_name = "AMCS" THEN report_config_azimuth(R, configuration)
             ELSE IF llc_name = "LWSCS" THEN report_config_elevation(R, configuration)
             ELSE R

_report_configuration(R, llc_name, llc_status) ==
    IF R.raised # "" \/ "appliedConfiguration" \notin DOMAIN llc_status THEN R
    ELSE LET configuration ==
                 [name \in DOMAIN llc_status["appliedConfiguration"] |->
                     IF name \in {"jmax", "amax", "vmax"}
                         THEN degrees(llc_status["appliedConfiguration"][name])
                         ELSE llc_status["appliedConfiguration"][name]]
         IN  IF llc_name = "AMCS" THEN report_config_azimuth(R, configuration)
             ELSE IF llc_name = "LWSCS" THEN report_config_elevation(R, configuration)
             ELSE R

\* ", ".join(f"{message['code']}={message['description']}" for message in messages)
RECURSIVE JoinMessages(_, _)
JoinMessages(messages, i) ==
    IF i > Len(messages) THEN ""
    ELSE (IF i > 1 THEN ", " ELSE "")
             \o ToString(messages[i].code) \o "=" \o messages[i].description
             \o JoinMessages(messages, i + 1)

\* Slip: a single message is taken for no error whatever its code.
_get_fault_code_code_ignored(llc_status) ==
    LET messages  == llc_status["messages"]
        has_error == Len(messages) # 1
    IN  [has_error  |-> has_error,
         fault_code |-> IF has_error THEN JoinMessages(messages, 1) ELSE ""]

_get_fault_code(llc_status) ==
    LET messages  == llc_status["messages"]
        has_error == Len(messages) # 1 \/ messages[1].code # 0
    IN  [has_error  |-> has_error,
         fault_code |-> IF has_error THEN JoinMessages(messages, 1) ELSE ""]

\* self.log.error(f"Unknown motion state: {state!r}")
log_error(R, state) == IF R.raised # "" THEN R ELSE [R EXCEPT !.log = Append(@, state)]

\* Slip: the legacy table is not consulted.
_translate_motion_state_if_necessary_no_table(state) ==
    IF state \in MotionStateNames THEN state ELSE None

_translate_motion_state_if_necessary(state) ==
    IF state \in MotionStateNames THEN state
    ELSE IF state \in DOMAIN motion_state_translations THEN motion_state_translations[state]
    ELSE None

\* Slip: the motion is reported whether or not the status has an error.
_check_errors_and_report_azimuth_motion_always(R, llc_status) ==
    LET fc == _get_fault_code(llc_status)
        state == IF fc.has_error THEN EnabledState["FAULT"] ELSE EnabledState["ENABLED"]
        r1 == report_state_azimuth_axis(R, state)
        r2 == report_fault_code_azimuth_axis(r1, fc.fault_code)
        motion_state == _translate_motion_state_if_necessary(llc_status["status"])
    IN  IF motion_state = None THEN log_error(r2, llc_status["status"])
        ELSE report_motion_azimuth_axis(
                 r2, motion_state,
                 motion_state \in {"STOPPED", "STOPPED_BRAKED", "CRAWLING", "PARKED"})

_check_errors_and_report_azimuth(R, llc_status) ==
    LET fc == _get_fault_code(llc_status)
        state == IF fc.has_error THEN EnabledState["FAULT"] ELSE EnabledState["ENABLED"]
        r1 == report_state_azimuth_axis(R, state)
        r2 == report_fault_code_azimuth_axis(r1, fc.fault_code)
        motion_state == _translate_motion_state_if_necessary(llc_status["status"])
    IN  IF fc.has_error THEN r2
        ELSE IF motion_state = None THEN log_error(r2, llc_status["status"])
        ELSE report_motion_azimuth_axis(
                 r2, motion_state,
                 motion_state \in {"STOPPED", "STOPPED_BRAKED", "CRAWLING", "PARKED"})

\* Slip: the elevation uses the allow-list of the azimuth.
_check_errors_and_report_elevation_as_azimuth(R, llc_status) ==
    LET fc == _get_fault_code(llc_status)
        state == IF fc.has_error THEN EnabledState["FAULT"] ELSE EnabledState["ENABLED"]
        r1 == report_state_elevation_axis(R, state)
        r2 == report_fault_code_elevation_axis(r1, fc.fault_code)
        motion_state == _translate_motion_state_if_necessary(llc_status["status"])
    IN  IF fc.has_error THEN r2
        ELSE IF motion_state = None THEN log_error(r2, llc_status["status"])
        ELSE report_motion_elevation_axis(
                 r2, motion_state,
                 motion_state \in {"STOPPED", "STOPPED_BRAKED", "CRAWLING", "PARKED"})

_check_errors_and_report_elevation(R, llc_status) ==
    LET fc == _get_fault_code(llc_status)
        state == IF fc.has_error THEN EnabledState["FAULT"] ELSE EnabledState["ENABLED"]
        r1 == report_state_elevation_axis(R, state)
        r2 == report_fault_code_elevation_axis(r1, fc.fault_code)
        motion_state == _translate_motion_state_if_necessary(llc_status["status"])
    IN  IF fc.has_error THEN r2
        ELSE IF motion_state = None THEN log_error(r2, llc_status["status"])
        ELSE report_motion_elevation_axis(
                 r2, motion_state, motion_state \in {"STOPPED", "STOPPED_BRAKED", "CRAWLING"})

_check_errors_and_report_aperture_shutter(R, llc_status) ==
    LET fc == _get_fault_code(llc_status)
        state == IF fc.has_error THEN EnabledState["FAULT"] ELSE EnabledState["ENABLED"]
        r1 == report_state_aperture_shutter(R, state)
        r2 == report_fault_code_aperture_shutter(r1, fc.fault_code)
        motion_states ==
            [i \in 1..Len(llc_status["status"]) |->
                _translate_motion_state_if_necessary(llc_status["status"][i])]
        in_positions ==
            [i \in 1..Len(llc_status["status"]) |->
                motion_states[i] \in {"STOPPED", "STOPPED_BRAKED"}]
        unknown == {i \in 1..Len(motion_states) : motion_states[i] = None}
    IN  IF fc.has_error THEN r2
        \* the loop returns at the first label it cannot translate
        ELSE IF unknown # {}
            THEN log_error(r2, llc_status["status"][CHOOSE i \in unknown :
                                                       \A j \in unknown : i <= j])
        ELSE report_motion_aperture_shutter(r2, motion_states, in_positions)

_check_errors_and_report(R, llc_name, llc_status) ==
    IF R.raised # "" THEN R
    ELSE IF llc_name = "AMCS" THEN _check_errors_and_report_azimuth(R, llc_status)
    ELSE IF llc_name = "LWSCS" THEN _check_errors_and_report_elevation(R, llc_status)
    ELSE IF llc_name = "APSCS" THEN _check_errors_and_report_aperture_shutter(R, llc_status)
    ELSE R

\* bool(value) of a value that is a bool already or a number (type(value) is
\* read off the way the value prints).
bool(value) == IF ToString(value) \in {"TRUE", "FALSE"} THEN value ELSE value # 0

\* Slip: only the raised readings of the monitoring system are kept.
request_llc_status_and_report_raised_only(R, llc_name, llc_status) ==
    LET r1 == _report_operational_mode(R, llc_name, llc_status["status"])
        r2 == _report_configuration(r1, llc_name, llc_status)
        r3 == _check_errors_and_report(r2, llc_name, llc_status["status"])
        processed_telemetry == _remove_keys_from_dict(llc_status)
    IN  IF r3.raised # "" THEN r3
        ELSE IF llc_name = "MONCS"
            THEN report_interlocks(r3, [i \in 1..Len(SelectSeq(processed_telemetry["data"],
                                                                 LAMBDA v : v # 0)) |-> TRUE])
        ELSE IF llc_name = "OBC" THEN r3
        ELSE IF llc_name = "CBCS"
            THEN LET fuseIntervention == processed_telemetry["fuseIntervention"]
                 IN  report_capacitor_bank(
                         r3,
                         IF ToString(fuseIntervention[1]) \notin {"TRUE", "FALSE"}
                             THEN [processed_telemetry EXCEPT !["fuseIntervention"] =
                                      [i \in 1..Len(fuseIntervention) |->
                                          bool(fuseIntervention[i])]]
                             ELSE processed_telemetry)
        ELSE report_telemetry(r3, Lower[llc_name], processed_telemetry)

\* request_llc_status_and_report from the retrieved status on.
request_llc_status_and_report(R, llc_name, llc_status) ==
    LET r1 == _report_operational_mode(R, llc_name, llc_status["status"])
        r2 == _report_configuration(r1, llc_name, llc_status)
        r3 == _check_errors_and_report(r2, llc_name, llc_status["status"])
        processed_telemetry == _remove_keys_from_dict(llc_status)
    IN  IF r3.raised # "" THEN r3
        ELSE IF llc_name = "MONCS"
            THEN report_interlocks(r3, [i \in 1..Len(processed_telemetry["data"]) |->
                                           bool(processed_telemetry["data"][i])])
        ELSE IF llc_name = "OBC" THEN r3
        ELSE IF llc_name = "CBCS"
            THEN LET fuseIntervention == processed_telemetry["fuseIntervention"]
                 IN  report_capacitor_bank(
                         r3,
                         IF ToString(fuseIntervention[1]) \notin {"TRUE", "FALSE"}
                             THEN [processed_telemetry EXCEPT !["fuseIntervention"] =
                                      [i \in 1..Len(fuseIntervention) |->
                                          bool(fuseIntervention[i])]]
                             ELSE processed_telemetry)
        ELSE report_telemetry(r3, Lower[llc_name], processed_telemetry)

(***************************************************************************)
(* Calls.  Begin is the Reporter as a call finds it; Commit records the    *)
(* call's result together with what was called.                            *)
(***************************************************************************)
Begin == [status |-> status, last |-> last, emitted |-> <<>>, raised |-> "", log |-> <<>>]

Relation(op, args) ==
    IF call.op # op THEN "other"
    ELSE IF call.args = args THEN "same_call" ELSE "same_op"

Record(op, args, R) ==
    /\ status' = R.status
    /\ last' = R.last
    /\ emitted' = R.emitted
    /\ raised' = R.raised
    /\ call' = [op |-> op, args |-> args, changed |-> R.status # status, logged |-> R.log]
    /\ prev' = [rel |-> Relation(op, args), published |-> Len(emitted),
                changed |-> call.changed]

Commit(op, args, R) == Record(op, args, R) /\ UNCHANGED <<heap, loop, tab_figure, tab_selector>>

Bitmasks == 0..MaxBitmask

\* Interlock readings with at most one interlock active.
Interlocks == {[i \in 1..MON_NUM_SENSORS |-> i = k] : k \in 0..MON_NUM_SENSORS}

Samples == 0..MaxSample

Call_report_state_locking_pins_engaged ==
    \E v \in Bitmasks :
        /\ Commit("report_state_locking_pins_engaged", <<v>>,
                  report_state_locking_pins_engaged(Begin, v))
        /\ UNCHANGED mvars

Call_report_state_brake_engaged ==
    \E v \in Bitmasks :
        /\ Commit("report_state_brake_engaged", <<v>>, report_state_brake_engaged(Begin, v))
        /\ UNCHANGED mvars

Call_report_state_azimuth_axis ==
    \E v \in EnabledStateValues :
        /\ Commit("report_state_azimuth_axis", <<v>>, report_state_azimuth_axis(Begin, v))
        /\ UNCHANGED mvars

\* report_state_elevation_axis or report_state_aperture_shutter is called.
Call_report_state_elevation_or_shutter ==
    \E v \in EnabledStateValues :
        /\ \/ Commit("report_state_elevation_axis", <<v>>,
                  report_state_elevation_axis(Begin, v))
           \/ Commit("report_state_aperture_shutter", <<v>>,
                  report_state_aperture_shutter(Begin, v))
        /\ UNCHANGED mvars

\* report_state_louvers, report_state_rear_access_door or
\* report_state_calibration_screen is called.
Call_report_state_newer_component ==
    \E v \in {EnabledState["DISABLED"]} :
        /\ \/ Commit("report_state_louvers", <<v>>, report_state_louvers(Begin, v))
           \/ Commit("report_state_rear_access_door", <<v>>,
                  report_state_rear_access_door(Begin, v))
           \/ Commit("report_state_calibration_screen", <<v>>,
                  report_state_calibration_screen(Begin, v))
        /\ UNCHANGED mvars

Call_report_state_power_mode ==
    \E v \in PowerManagementModeValues :
        /\ Commit("report_state_power_mode", <<v>>, report_state_power_mode(Begin, v))
        /\ UNCHANGED mvars

Call_report_state_control_mode ==
    /\ Commit("report_state_control_mode", <<"Remote">>,
              report_state_control_mode(Begin, "Remote"))
    /\ UNCHANGED mvars

Call_report_default ==
    /\ Commit("report_default", <<>>, report_default(Begin))
    /\ UNCHANGED mvars

(***************************************************************************)
(* Reporter.__init__ and Model.__init__.                                   *)
(***************************************************************************)
\* The coroutine of connect() / disconnect(): not running, op the call that ended
\* last, error what it raised (<<>> if nothing), began whether the step just
\* taken was the call itself.
Idle(op, error, began) ==
    [pc |-> "idle", op |-> op, awaiting |-> 0, error |-> error, com_error |-> "",
     began |-> began]

Init ==
    /\ status = StatusDefault
    /\ last = [ch \in DiscreteChannels |-> <<>>]
    /\ call = [op |-> "__init__", args |-> <<>>, changed |-> FALSE, logged |-> <<>>]
    /\ emitted = <<>>
    /\ raised = ""
    /\ prev = [rel |-> "other", published |-> 0, changed |-> FALSE]
    /\ heap = [value |-> [o \in {"a", "b", "c"} |-> StatusDefault.interlocks],
               status |-> "a", caller |-> "", panel |-> ""]
    /\ loop = [ready |-> <<>>, shown |-> [ch \in Channels |-> <<>>]]
    /\ tab_figure = [constructed |-> FALSE, num_realtime |-> 0, _data |-> <<>>,
                     _figure |-> <<>>, visible |-> FALSE, raised |-> ""]
    /\ tab_selector = [constructed |-> FALSE, checked |-> <<>>, enabled |-> <<>>,
                       returned |-> <<>>, call |-> <<"">>]
    /\ mtdome_com = 0
    /\ client = [h \in 1..MaxConnects |-> "none"]
    /\ periodic_tasks = <<>>
    /\ task = <<>>
    /\ lc = Idle("", <<>>, FALSE)

(***************************************************************************)
(* The state reports, called in any order with any value.                  *)
(***************************************************************************)
NextState ==
    \/ Call_report_state_locking_pins_engaged
    \/ Call_report_state_brake_engaged
    \/ Call_report_state_azimuth_axis
    \/ Call_report_state_elevation_or_shutter
    \/ Call_report_state_newer_component
    \/ Call_report_state_power_mode
    \/ Call_report_state_control_mode
    \/ Call_report_default

SpecState == Init /\ [][NextState]_vars

(***************************************************************************)
(* The state reports and what each reads and publishes.                    *)
(***************************************************************************)
StateReports ==
    [report_state_locking_pins_engaged |->
         [field |-> "lockingPinsEngaged", ch |-> <<"interlock", "locking_pins_engaged">>],
     report_state_brake_engaged |->
         [field |-> "brakeEngaged", ch |-> <<"state", "brake_engaged">>],
     report_state_azimuth_axis |->
         [field |-> "azimuthAxis", ch |-> <<"state", "azimuth_axis">>],
     report_state_elevation_axis |->
         [field |-> "elevationAxis", ch |-> <<"state", "elevation_axis">>],
     report_state_aperture_shutter |->
         [field |-> "apertureShutter", ch |-> <<"state", "aperture_shutter">>],
     report_state_power_mode |->
         [field |-> "powerMode", ch |-> <<"state", "power_mode">>]]

StateReportOps == DOMAIN StateReports

\* The events of a sequence that were published on channel ch.
On(events, ch) == SelectSeq(events, LAMBDA e : e.ch = ch)

\* Status.state[F] is what F's channel delivered last, or F's default.
StateFollowsChannel ==
    \A op \in StateReportOps :
        status.state[StateReports[op].field] =
            IF last[StateReports[op].ch] = <<>>
                THEN StatusDefault.state[StateReports[op].field]
                ELSE last[StateReports[op].ch][1]

C1_Step ==
    /\ call'.op \in StateReportOps =>
          LET F  == StateReports[call'.op].field
              ch == StateReports[call'.op].ch
              v  == call'.args[1]
          IN  /\ raised' = ""
              /\ status.state[F] # v =>
                    /\ status' = [status EXCEPT !.state[F] = v]
                    /\ emitted' = <<Event(ch, v)>>
              /\ status.state[F] = v =>
                    /\ status' = status
                    /\ emitted' = <<>>
    /\ StateFollowsChannel'

\* C1: report_state_F(v) with v different from Status.state[F] stores v and
\* publishes exactly one event carrying v on F's channel; with v equal it changes
\* no field of Status and publishes nothing; so Status.state[F] always equals the
\* payload last published on F's channel, or F's default when there was none.
C1_ChangeDetection == [][C1_Step]_vars

\* A report that found another reported value stored, replaced it and published.
C1_Witness ==
    /\ call.op = "report_state_power_mode"
    /\ prev.rel = "same_op" /\ prev.changed
    /\ call.changed
    /\ emitted = <<Event(<<"state", "power_mode">>, PowerManagementMode["EMERGENCY"])>>
    /\ status.state["powerMode"] = PowerManagementMode["EMERGENCY"]

\* C2 as stated: two successive calls with the same v publish exactly one event,
\* and a call with v followed by one with another value publishes exactly two.
C2_Original ==
    call.op \in StateReportOps =>
        /\ prev.rel = "same_call" => prev.published + Len(emitted) = 1
        /\ prev.rel = "same_op" => prev.published + Len(emitted) = 2

\* C2 amended: the second of two successive calls with the same v publishes
\* nothing and the first publishes one event exactly when it changed the stored
\* value; after a call with v, a call with another value publishes exactly one
\* event carrying it, the first again one exactly when it changed the stored value.
C2_Succession ==
    call.op \in StateReportOps =>
        /\ prev.rel = "same_call" =>
              /\ emitted = <<>>
              /\ prev.published = (IF prev.changed THEN 1 ELSE 0)
        /\ prev.rel = "same_op" =>
              /\ emitted = <<Event(StateReports[call.op].ch, call.args[1])>>
              /\ prev.published = (IF prev.changed THEN 1 ELSE 0)

\* The same value reported twice in succession, the first call having published.
C2_Witness ==
    /\ call.op = "report_state_azimuth_axis"
    /\ prev.rel = "same_call" /\ prev.published = 1
    /\ emitted = <<>>

(***************************************************************************)
(* The structural reports: interlocks, capacitor bank, configurations.     *)
(***************************************************************************)
\* Capacitor-bank flags with at most one boolean set.
CapacitorBanks ==
    {StatusDefault.capacitor_bank}
        \cup {[StatusDefault.capacitor_bank EXCEPT ![f][i] = TRUE] :
                  f \in CapacitorBankFlags, i \in 1..CBCS_NUM_CAPACITOR_BANKS}

\* Configurations with at most one value that is not the default.
Configs ==
    {ConfigDefault}
        \cup {[ConfigDefault EXCEPT ![k] = x] : k \in DOMAIN ConfigDefault, x \in 1..MaxConfig}

Call_report_interlocks ==
    \E v \in Interlocks :
        /\ Commit("report_interlocks", <<v>>, report_interlocks(Begin, v))
        /\ UNCHANGED mvars

Call_report_capacitor_bank ==
    \E bank \in CapacitorBanks, voltage \in {0, MaxSample} :
        /\ Commit("report_capacitor_bank", <<bank @@ ("dcBusVoltage" :> voltage)>>,
                  report_capacitor_bank(Begin, bank @@ ("dcBusVoltage" :> voltage)))
        /\ UNCHANGED mvars

\* report_config_azimuth or report_config_elevation is called.
Call_report_config ==
    \E config \in Configs :
        /\ \/ Commit("report_config_azimuth", <<config>>,
                  report_config_azimuth(Begin, config))
           \/ Commit("report_config_elevation", <<config>>,
                  report_config_elevation(Begin, config))
        /\ UNCHANGED mvars

NextStructural ==
    \/ Call_report_interlocks
    \/ Call_report_capacitor_bank
    \/ Call_report_config

SpecStructural == Init /\ [][NextStructural]_vars

\* The structural reports: the Status field each compares and its channel.
StructuralReports ==
    [report_interlocks |-> [field |-> "interlocks", ch |-> <<"interlock", "interlock">>],
     report_capacitor_bank |-> [field |-> "capacitor_bank", ch |-> <<"telemetry", "cbcs">>],
     report_config_azimuth |-> [field |-> "config_amcs", ch |-> <<"config", "amcs">>],
     report_config_elevation |-> [field |-> "config_lwscs", ch |-> <<"config", "lwscs">>]]

\* The value a structural report compares: its argument, the capacitor bank's
\* without the voltage.
StructuralValue(op, arg) ==
    IF op = "report_capacitor_bank" THEN PopVoltage(arg) ELSE arg

C4_Step ==
    call'.op \in DOMAIN StructuralReports =>
        LET F   == StructuralReports[call'.op].field
            ch  == StructuralReports[call'.op].ch
            new == StructuralValue(call'.op, call'.args[1])
        IN  /\ raised' = ""
            /\ status[F] # new =>
                  /\ status' = [status EXCEPT ![F] = new]
                  /\ On(emitted', ch) = <<Event(ch, new)>>
            /\ status[F] = new =>
                  /\ status' = status
                  /\ On(emitted', ch) = <<>>

\* C4: report_interlocks, report_capacitor_bank, report_config_azimuth and
\* report_config_elevation store the new value and publish it whole on their
\* channel exactly when it differs from the stored one as a whole (one differing
\* element is enough); an equal value is neither stored nor published.
C4_StructuralChange == [][C4_Step]_vars

\* A capacitor bank with one boolean changed was published, then an identical
\* copy of it was reported and not published.
C4_Witness ==
    /\ call.op = "report_capacitor_bank"
    /\ prev.rel = "same_call" /\ prev.changed /\ prev.published = 2
    /\ status.capacitor_bank = [StatusDefault.capacitor_bank EXCEPT !["doorOpen"][1] = TRUE]
    /\ On(emitted, <<"telemetry", "cbcs">>) = <<>>
    /\ ~call.changed

(***************************************************************************)
(* The continuous reports: telemetry, targets, motions, fault codes.       *)
(***************************************************************************)
TelemetryFields == {ch[2] : ch \in SignalTelemetry}

FaultCodes == {"", "fault"}

Call_report_telemetry ==
    \E field \in TelemetryFields, x \in Samples :
        /\ Commit("report_telemetry", <<field, [data |-> x]>>,
                  report_telemetry(Begin, field, [data |-> x]))
        /\ UNCHANGED mvars

\* report_target_azimuth or report_target_elevation is called.
Call_report_target ==
    \E position \in Samples, velocity \in Samples :
        /\ \/ Commit("report_target_azimuth", <<position, velocity>>,
                  report_target_azimuth(Begin, position, velocity))
           \/ Commit("report_target_elevation", <<position, velocity>>,
                  report_target_elevation(Begin, position, velocity))
        /\ UNCHANGED mvars

\* One of the six report_motion_* methods is called; the components with
\* several parts are given one value per part.
Call_report_motion ==
    \E motion_state \in MotionStateNames, in_position \in BOOLEAN :
        /\ \/ Commit("report_motion_azimuth_axis", <<motion_state, in_position>>,
                  report_motion_azimuth_axis(Begin, motion_state, in_position))
           \/ Commit("report_motion_elevation_axis", <<motion_state, in_position>>,
                  report_motion_elevation_axis(Begin, motion_state, in_position))
           \/ LET motion_states == Repeat(motion_state, APSCS_NUM_SHUTTERS)
                  in_positions  == Repeat(in_position, APSCS_NUM_SHUTTERS)
              IN  Commit("report_motion_aperture_shutter", <<motion_states, in_positions>>,
                         report_motion_aperture_shutter(Begin, motion_states, in_positions))
           \/ LET motion_states == Repeat(motion_state, LCS_NUM_LOUVERS)
                  in_positions  == Repeat(in_position, LCS_NUM_LOUVERS)
              IN  Commit("report_motion_louvers", <<motion_states, in_positions>>,
                         report_motion_louvers(Begin, motion_states, in_positions))
           \/ LET motion_states == Repeat(motion_state, RAD_NUM_DOORS)
                  in_positions  == Repeat(in_position, RAD_NUM_DOORS)
              IN  Commit("report_motion_rear_access_door", <<motion_states, in_positions>>,
                         report_motion_rear_access_door(Begin, motion_states, in_positions))
           \/ Commit("report_motion_calibration_screen", <<motion_state, in_position>>,
                  report_motion_calibration_screen(Begin, motion_state, in_position))
        /\ UNCHANGED mvars

\* One of the six report_fault_code_* methods is called.
Call_report_fault_code ==
    \E fault_code \in FaultCodes :
        /\ \/ Commit("report_fault_code_azimuth_axis", <<fault_code>>,
                  report_fault_code_azimuth_axis(Begin, fault_code))
           \/ Commit("report_fault_code_elevation_axis", <<fault_code>>,
                  report_fault_code_elevation_axis(Begin, fault_code))
           \/ Commit("report_fault_code_aperture_shutter", <<fault_code>>,
                  report_fault_code_aperture_shutter(Begin, fault_code))
           \/ Commit("report_fault_code_louvers", <<fault_code>>,
                  report_fault_code_louvers(Begin, fault_code))
           \/ Commit("report_fault_code_rear_access_door", <<fault_code>>,
                  report_fault_code_rear_access_door(Begin, fault_code))
           \/ Commit("report_fault_code_calibration_screen", <<fault_code>>,
                  report_fault_code_calibration_screen(Begin, fault_code))
        /\ UNCHANGED mvars

NextContinuous ==
    \/ Call_report_telemetry
    \/ Call_report_target
    \/ Call_report_motion
    \/ Call_report_fault_code

SpecContinuous == Init /\ [][NextContinuous]_vars

ContinuousOps ==
    {"report_telemetry", "report_target_azimuth", "report_target_elevation",
     "report_motion_azimuth_axis", "report_motion_elevation_axis",
     "report_motion_aperture_shutter", "report_motion_louvers",
     "report_motion_rear_access_door", "report_motion_calibration_screen",
     "report_fault_code_azimuth_axis", "report_fault_code_elevation_axis",
     "report_fault_code_aperture_shutter", "report_fault_code_louvers",
     "report_fault_code_rear_access_door", "report_fault_code_calibration_screen"}

\* C5: every call of report_telemetry, report_target_*, report_motion_* or
\* report_fault_code_* publishes exactly one event, also when the payload is the
\* one published before, and leaves every field of Status unchanged.
C5_AlwaysPublishes ==
    call.op \in ContinuousOps =>
        /\ raised = ""
        /\ Len(emitted) = 1
        /\ ~call.changed

(***************************************************************************)
(* report_default on a newly constructed Reporter.                         *)
(***************************************************************************)
C6_Step ==
    (call.op = "__init__" /\ call'.op = "report_default") =>
        /\ raised' = ""
        /\ \A ch \in Channels : On(emitted', ch) # <<>>
        /\ status'.state["lockingPinsEngaged"] = -1
        /\ \A i \in 1..MON_NUM_SENSORS : status'.interlocks[i] = FALSE

\* C6: after report_default() on a newly constructed Reporter every declared
\* channel of every signal group has been published to at least once, and Status
\* holds the documented defaults: locking pins engaged -1, every interlock False.
C6_DefaultPublishesAll == [][C6_Step]_vars

(***************************************************************************)
(* Model (model.py): connection lifecycle and periodic tasks.  connect()   *)
(* and disconnect() are called one after the other, by one caller; the     *)
(* periodic tasks run whenever the caller is suspended or idle.            *)
(***************************************************************************)
\* The status methods of all_methods_and_intervals, in order.
all_methods_and_intervals == <<"statusAMCS", "statusCBCS">>

StatusMethods == {all_methods_and_intervals[i] : i \in 1..Len(all_methods_and_intervals)}

\* The component a status method polls.
LlcOf == [statusAMCS |-> "AMCS", statusCBCS |-> "CBCS"]

\* What the collaborator's connect can raise.
ConnectErrors == {"ConnectionRefusedError", "TimeoutError"}

is_connected == mtdome_com # 0 /\ client[mtdome_com] = "connected"

\* asyncio.create_task(self.one_periodic_task(method, interval)); com is the
\* MTDomeCom a bound method belongs to, 0 for a method of the Model; caught is
\* the exception the method caught and logged in the cycle before the sleep.
create_task(method, com) ==
    [method |-> method, com |-> com, state |-> "created", must_cancel |-> FALSE,
     using |-> 0, outcome |-> "pending", cancelled_at |-> "", caught |-> ""]

\* Slip: the task of the reply watchdog is not created.
NewTasks_no_watchdog(com) ==
    [i \in 1..Len(all_methods_and_intervals) |-> create_task(all_methods_and_intervals[i], 0)]
        \o <<create_task("process_command_queue", com)>>

\* The tasks start_periodic_tasks creates, in the order it appends them.
NewTasks(com) ==
    [i \in 1..Len(all_methods_and_intervals) |-> create_task(all_methods_and_intervals[i], 0)]
        \o <<create_task("check_all_commands_have_replies", com),
             create_task("process_command_queue", com)>>

\* Slip: the tasks are cancelled but not awaited.
RECURSIVE cancel_periodic_tasks_not_awaited(_, _)
cancel_periodic_tasks_not_awaited(tasks, T) ==
    IF tasks = <<>>
        THEN [periodic_tasks |-> <<>>, task |-> T, awaiting |-> 0, error |-> <<>>]
    ELSE cancel_periodic_tasks_not_awaited(
             SubSeq(tasks, 1, Len(tasks) - 1),
             [T EXCEPT ![tasks[Len(tasks)]].must_cancel = T[tasks[Len(tasks)]].state # "done"])

\* cancel_periodic_tasks up to its first suspension: a finished task is popped
\* and awaited without suspending; the first unfinished one is popped, its
\* cancellation requested, and the caller waits for it (awaiting).
RECURSIVE cancel_periodic_tasks(_, _)
cancel_periodic_tasks(tasks, T) ==
    IF tasks = <<>>
        THEN [periodic_tasks |-> <<>>, task |-> T, awaiting |-> 0, error |-> <<>>]
    ELSE LET periodic_task == tasks[Len(tasks)]
             rest          == SubSeq(tasks, 1, Len(tasks) - 1)
         IN  IF T[periodic_task].state # "done"
                 THEN [periodic_tasks |-> rest,
                       task |-> [T EXCEPT ![periodic_task].must_cancel = TRUE],
                       awaiting |-> periodic_task, error |-> <<>>]
             ELSE IF T[periodic_task].outcome = "cancelled"
                 THEN [periodic_tasks |-> rest, task |-> T, awaiting |-> 0,
                       error |-> <<"CancelledError">>]
             ELSE cancel_periodic_tasks(rest, T)

\* The rest of connect() (start_periodic_tasks) or of disconnect() once
\* cancel_periodic_tasks has got as far as c; com and cl are mtdome_com and client.
\* When the list has been emptied every task is finished and no longer
\* referenced: the finished tasks are forgotten.
AfterCancel(op, c, com, cl) ==
    IF c.error # <<>>
        THEN [periodic_tasks |-> c.periodic_tasks, task |-> c.task, mtdome_com |-> com,
              client |-> cl, lc |-> Idle(op, c.error, FALSE)]
    ELSE IF c.awaiting # 0
        THEN [periodic_tasks |-> c.periodic_tasks, task |-> c.task, mtdome_com |-> com,
              client |-> cl,
              lc |-> [pc |-> "await_task", op |-> op, awaiting |-> c.awaiting,
                      error |-> <<>>, com_error |-> "", began |-> FALSE]]
    ELSE IF op = "connect"
        THEN [periodic_tasks |-> [i \in 1..Len(NewTasks(com)) |-> i], task |-> NewTasks(com),
              mtdome_com |-> com, client |-> cl, lc |-> Idle(op, <<>>, FALSE)]
    ELSE IF com # 0 /\ cl[com] = "connected"
        THEN [periodic_tasks |-> <<>>, task |-> <<>>, mtdome_com |-> 0,
              client |-> [cl EXCEPT ![com] = "closed"], lc |-> Idle(op, <<>>, FALSE)]
    ELSE [periodic_tasks |-> <<>>, task |-> <<>>, mtdome_com |-> com, client |-> cl,
          lc |-> Idle(op, <<>>, FALSE)]

Apply(r, began) ==
    /\ periodic_tasks' = r.periodic_tasks
    /\ task' = r.task
    /\ mtdome_com' = r.mtdome_com
    /\ client' = r.client
    /\ lc' = [r.lc EXCEPT !.began = began]

\* connect(), lines 160-172: the baseline reported once the connection is made.
connect_baseline(R, power_management_mode) ==
    LET r1 == report_state_azimuth_axis(R, EnabledState["ENABLED"])
        r2 == report_fault_code_azimuth_axis(r1, "")
        r3 == report_state_elevation_axis(r2, EnabledState["ENABLED"])
        r4 == report_fault_code_elevation_axis(r3, "")
        r5 == report_state_aperture_shutter(r4, EnabledState["ENABLED"])
        r6 == report_fault_code_aperture_shutter(r5, "")
        r7 == report_state_brake_engaged(r6, 0)
        r8 == report_state_locking_pins_engaged(r7, 0)
    IN  report_state_power_mode(r8, power_management_mode)

\* MTDomeCom.power_management_mode as connect() may find it.
ComPowerModes == {PowerManagementMode["NO_POWER_MANAGEMENT"]}

NoErrors == <<[code |-> 0, description |-> "No Errors"]>>

\* Replies of the azimuth controller: without error, and with one fault.
AmcsReplies ==
    {[status |-> [messages |-> messages, status |-> "MOVING", operationalMode |-> "NORMAL"],
      timestamp |-> 0, appliedConfiguration |-> [jmax |-> 1, amax |-> 0, vmax |-> 0],
      positionActual |-> 0] :
         messages \in {NoErrors, <<[code |-> 100, description |-> "Drive fault"]>>}}

\* Reply of the capacitor banks: no flag set.
CbcsReplies ==
    {[status |-> [messages |-> NoErrors, status |-> "ENABLED"], timestamp |-> 0,
      dcBusVoltage |-> 0] @@ StatusDefault.capacitor_bank}

\* What a polling task is answered: the azimuth controller is in fault, the
\* capacitor banks are not.
PollReplies(llc_name) ==
    IF llc_name = "AMCS" THEN {r \in AmcsReplies : r.status.messages # NoErrors}
    ELSE CbcsReplies

Connect_Begin ==
    /\ lc.pc = "idle"
    /\ \E h \in DOMAIN client :
          /\ client[h] = "none"
          /\ \A g \in DOMAIN client : g < h => client[g] # "none"
          /\ mtdome_com' = h
          /\ client' = [client EXCEPT ![h] = "unconnected"]
    /\ lc' = [pc |-> "connecting", op |-> "connect", awaiting |-> 0, error |-> <<>>,
              com_error |-> "", began |-> TRUE]
    /\ UNCHANGED <<periodic_tasks, task>>
    /\ UNCHANGED rvars

\* Slip: the collaborator's exception is swallowed and connect() carries on.
Connect_Fail_swallowed ==
    /\ lc.pc = "connecting"
    /\ \E cause \in ConnectErrors :
          /\ Commit("connect", <<cause>>,
                    connect_baseline(Begin, PowerManagementMode["NO_POWER_MANAGEMENT"]))
          /\ lc' = [Idle("connect", <<>>, FALSE) EXCEPT !.com_error = cause]
    /\ UNCHANGED <<mtdome_com, client, periodic_tasks, task>>

Connect_Fail ==
    /\ lc.pc = "connecting"
    /\ \E cause \in ConnectErrors :
          lc' = [Idle("connect", <<"RuntimeError", cause>>, FALSE) EXCEPT !.com_error = cause]
    /\ UNCHANGED <<mtdome_com, client, periodic_tasks, task>>
    /\ UNCHANGED rvars

\* Slip: the periodic tasks are started without the baseline being reported.
Connect_Success_no_baseline ==
    /\ lc.pc = "connecting"
    /\ \E mode \in ComPowerModes : Commit("connect", <<mode>>, Begin)
    /\ Apply(AfterCancel("connect", cancel_periodic_tasks(periodic_tasks, task), mtdome_com,
                         [client EXCEPT ![mtdome_com] = "connected"]), FALSE)

Connect_Success ==
    /\ lc.pc = "connecting"
    /\ \E mode \in ComPowerModes :
          Commit("connect", <<mode>>, connect_baseline(Begin, mode))
    /\ Apply(AfterCancel("connect", cancel_periodic_tasks(periodic_tasks, task), mtdome_com,
                         [client EXCEPT ![mtdome_com] = "connected"]), FALSE)

Disconnect_Begin ==
    /\ lc.pc = "idle"
    /\ Apply(AfterCancel("disconnect", cancel_periodic_tasks(periodic_tasks, task),
                         mtdome_com, client), TRUE)
    /\ UNCHANGED rvars

\* The awaited task ended cancelled: CancelledError is raised where it is awaited.
Lc_Resume_Cancelled ==
    /\ lc.pc = "await_task"
    /\ task[lc.awaiting].state = "done"
    /\ task[lc.awaiting].outcome = "cancelled"
    /\ lc' = Idle(lc.op, <<"CancelledError">>, FALSE)
    /\ UNCHANGED <<mtdome_com, client, periodic_tasks, task>>
    /\ UNCHANGED rvars

Lc_Resume ==
    /\ lc.pc = "await_task"
    /\ task[lc.awaiting].state = "done"
    /\ task[lc.awaiting].outcome # "cancelled"
    /\ Apply(AfterCancel(lc.op, cancel_periodic_tasks(periodic_tasks, task), mtdome_com,
                         client), FALSE)
    /\ UNCHANGED rvars

(***************************************************************************)
(* one_periodic_task: the steps of task i.                                 *)
(***************************************************************************)
Finished(t, outcome) ==
    [t EXCEPT !.state = "done", !.outcome = outcome, !.using = 0, !.caught = ""]

\* await method(): a status method asserts mtdome_com is not None and requests
\* the status from it; a bound method runs on its own MTDomeCom.
CallMethod(t) ==
    IF t.method \in StatusMethods
        THEN IF mtdome_com = 0 THEN Finished(t, "stopped")
             ELSE [t EXCEPT !.state = "awaiting", !.using = mtdome_com, !.caught = ""]
        ELSE [t EXCEPT !.state = "awaiting", !.using = t.com, !.caught = ""]

Seen == lc' = [lc EXCEPT !.began = FALSE]

Task_Start(i) ==
    /\ task[i].state = "created" /\ ~task[i].must_cancel
    /\ task' = [task EXCEPT ![i] = CallMethod(@)]
    /\ Seen
    /\ UNCHANGED <<mtdome_com, client, periodic_tasks>>
    /\ UNCHANGED rvars

\* Slip: after its sleep the task sleeps again without calling its method.
Task_Wake_sleeps_on(i) ==
    /\ task[i].state = "sleeping" /\ ~task[i].must_cancel
    /\ task' = task
    /\ Seen
    /\ UNCHANGED <<mtdome_com, client, periodic_tasks>>
    /\ UNCHANGED rvars

\* asyncio.sleep(interval) is over.
Task_Wake(i) ==
    /\ task[i].state = "sleeping" /\ ~task[i].must_cancel
    /\ task' = [task EXCEPT ![i] = CallMethod(@)]
    /\ Seen
    /\ UNCHANGED <<mtdome_com, client, periodic_tasks>>
    /\ UNCHANGED rvars

\* The status arrives and is reported; an exception of the reports ends the task.
Task_PollReports(i) ==
    /\ task[i].state = "awaiting" /\ ~task[i].must_cancel
    /\ task[i].method \in StatusMethods
    /\ client[task[i].using] = "connected"
    /\ \E llc_status \in PollReplies(LlcOf[task[i].method]) :
          LET R == request_llc_status_and_report(Begin, LlcOf[task[i].method], llc_status)
          IN  /\ Commit(task[i].method, <<llc_status>>, R)
              /\ task' = [task EXCEPT ![i] = IF R.raised = ""
                                                THEN [@ EXCEPT !.state = "sleeping", !.using = 0]
                                                ELSE Finished(@, "stopped")]
    /\ Seen
    /\ UNCHANGED <<mtdome_com, client, periodic_tasks>>

\* Slip: the failed request is not caught and ends the polling task.
Task_PollFails_not_caught(i) ==
    /\ task[i].state = "awaiting" /\ ~task[i].must_cancel
    /\ task[i].method \in StatusMethods
    /\ task' = [task EXCEPT ![i] = [Finished(@, "stopped") EXCEPT !.caught = "ValueError"]]
    /\ Seen
    /\ UNCHANGED <<mtdome_com, client, periodic_tasks>>
    /\ UNCHANGED rvars

\* request_llc_status raises ValueError: logged, the method returns having
\* reported nothing.
Task_PollFails(i) ==
    /\ task[i].state = "awaiting" /\ ~task[i].must_cancel
    /\ task[i].method \in StatusMethods
    /\ task' = [task EXCEPT ![i] = [@ EXCEPT !.state = "sleeping", !.using = 0, !.caught = "ValueError"]]
    /\ Seen
    /\ UNCHANGED <<mtdome_com, client, periodic_tasks>>
    /\ UNCHANGED rvars

\* check_all_commands_have_replies or process_command_queue returns.
Task_MethodReturns(i) ==
    /\ task[i].state = "awaiting" /\ ~task[i].must_cancel
    /\ task[i].method \notin StatusMethods
    /\ task' = [task EXCEPT ![i] = [@ EXCEPT !.state = "sleeping", !.using = 0]]
    /\ Seen
    /\ UNCHANGED <<mtdome_com, client, periodic_tasks>>
    /\ UNCHANGED rvars

\* Slip: the exception of one task ends every task.
Task_MethodRaises_ends_all(i) ==
    /\ task[i].state = "awaiting" /\ ~task[i].must_cancel
    /\ task' = [j \in DOMAIN task |-> IF task[j].state = "done" THEN task[j]
                                      ELSE Finished(task[j], "stopped")]
    /\ Seen
    /\ UNCHANGED <<mtdome_com, client, periodic_tasks>>
    /\ UNCHANGED rvars

\* The method raises another exception: logged, the task ends.
Task_MethodRaises(i) ==
    /\ task[i].state = "awaiting" /\ ~task[i].must_cancel
    /\ task' = [task EXCEPT ![i] = Finished(@, "stopped")]
    /\ Seen
    /\ UNCHANGED <<mtdome_com, client, periodic_tasks>>
    /\ UNCHANGED rvars

\* Slip: CancelledError is not caught.
Task_Cancelled_reraised(i) ==
    /\ task[i].must_cancel /\ task[i].state # "done"
    /\ task' = [task EXCEPT ![i] = [Finished(@, "cancelled") EXCEPT
                                       !.must_cancel = FALSE, !.cancelled_at = task[i].state]]
    /\ Seen
    /\ UNCHANGED <<mtdome_com, client, periodic_tasks>>
    /\ UNCHANGED rvars

\* The cancellation reaches the task.  Before its first step the coroutine never
\* runs and the task ends cancelled; at an await, CancelledError is raised
\* there, caught by one_periodic_task and the coroutine returns.
Task_Cancelled(i) ==
    /\ task[i].must_cancel /\ task[i].state # "done"
    /\ task' = [task EXCEPT ![i] =
                   [Finished(@, IF task[i].state = "created" THEN "cancelled" ELSE "normal")
                       EXCEPT !.must_cancel = FALSE, !.cancelled_at = task[i].state]]
    /\ Seen
    /\ UNCHANGED <<mtdome_com, client, periodic_tasks>>
    /\ UNCHANGED rvars

Next ==
    \/ Connect_Begin
    \/ Connect_Fail
    \/ Connect_Success
    \/ Disconnect_Begin
    \/ Lc_Resume_Cancelled
    \/ Lc_Resume
    \/ \E i \in DOMAIN task : Task_Start(i)
    \/ \E i \in DOMAIN task : Task_Wake(i)
    \/ \E i \in DOMAIN task : Task_PollReports(i)
    \/ \E i \in DOMAIN task : Task_PollFails(i)
    \/ \E i \in DOMAIN task : Task_MethodReturns(i)
    \/ \E i \in DOMAIN task : Task_MethodRaises(i)
    \/ \E i \in DOMAIN task : Task_Cancelled(i)

Spec == Init /\ [][Next]_vars

(***************************************************************************)
(* Connection lifecycle: properties.                                       *)
(***************************************************************************)
C7_Step ==
    /\ (lc.pc = "connecting" /\ lc'.com_error # "") =>
          /\ lc'.pc = "idle"
          /\ lc'.error = <<"RuntimeError", lc'.com_error>>
          /\ ~is_connected'
          /\ UNCHANGED <<status, last, call, emitted, periodic_tasks, task>>
    /\ (~is_connected /\ is_connected') =>
          /\ lc.pc = "connecting"
          /\ lc'.com_error = ""

\* C7: when the collaborator's connect raises, connect() raises one RuntimeError
\* that carries the cause, is_connected() is False, no event is published, Status
\* is unchanged and no periodic task is started; is_connected() turns True only
\* in a connect() whose collaborator's connect succeeded.
C7_ConnectFailure == [][C7_Step]_vars

\* connect() has failed on a timeout of the collaborator.
C7_Witness ==
    /\ lc.pc = "idle" /\ lc.op = "connect"
    /\ lc.com_error = "TimeoutError"
    /\ lc.error = <<"RuntimeError", "TimeoutError">>
    /\ mtdome_com # 0 /\ ~is_connected

\* Never connected, or disconnected: no connection and no periodic task.
Disconnected == ~is_connected /\ periodic_tasks = <<>>

C8_Step ==
    /\ (lc'.began /\ lc'.op = "disconnect" /\ Disconnected) =>
          /\ lc'.pc = "idle" /\ lc'.error = <<>>
          /\ UNCHANGED <<status, last, call, emitted, mtdome_com, client, periodic_tasks>>
    /\ (lc'.op = "disconnect" /\ lc'.pc = "idle" /\ (lc'.began \/ lc.pc = "await_task")) =>
          ~is_connected'

\* C8: disconnect() on a Disconnected Model raises nothing and changes nothing
\* (no collaborator call, Status and channels unchanged); disconnect() on a
\* Connected Model leaves is_connected() False.
C8_DisconnectIdempotent == [][C8_Step]_vars

\* No unfinished task holds, uses or would next use a connection that has been
\* closed or released.
NoTaskSeesClosed ==
    \A i \in DOMAIN task :
        task[i].state # "done" =>
            /\ task[i].com # 0 => client[task[i].com] # "closed"
            /\ task[i].state = "awaiting" => client[task[i].using] # "closed"
            /\ task[i].method \in StatusMethods => mtdome_com # 0

C9_Step ==
    /\ (\E h \in DOMAIN client : client[h] # "closed" /\ client'[h] = "closed") =>
          /\ lc'.op = "disconnect"
          /\ periodic_tasks' = <<>>
          /\ \A i \in DOMAIN task : task[i].state = "done"
          /\ mtdome_com' = 0
    /\ NoTaskSeesClosed'

\* C9: when disconnect() invokes the collaborator's disconnect and releases the
\* handle, every periodic task has been popped, cancelled and has finished; no
\* unfinished periodic task calls a method on, or holds, a closed or released
\* connection.
C9_TasksEndBeforeRelease == [][C9_Step]_vars

\* disconnect() waited for the tasks it cancelled and then closed the connection.
C9_Witness ==
    /\ lc = Idle("disconnect", <<>>, FALSE)
    /\ mtdome_com = 0
    /\ \E h \in DOMAIN client : client[h] = "closed"

\* C10 as stated: a task cancelled while sleeping or awaiting its method finishes
\* with the cancelled outcome.
C10_Original ==
    \A i \in DOMAIN task :
        (task[i].state = "done" /\ task[i].cancelled_at \in {"awaiting", "sleeping"}) =>
            task[i].outcome = "cancelled"

C10_Step ==
    \A i \in DOMAIN task :
        (task[i].must_cancel /\ task[i].state \in {"awaiting", "sleeping"}) =>
            /\ i \in DOMAIN task'
            /\ \/ task'[i] = task[i]
               \/ /\ task'[i].state = "done"
                  /\ task'[i].outcome = "normal"
                  /\ task'[i].cancelled_at = task[i].state

\* C10 amended: a task cancelled while sleeping or awaiting its method does
\* nothing more than leave at that point, and since one_periodic_task catches the
\* cancellation it finishes as a normal completion.
C10_CancelCaught == [][C10_Step]_vars

\* A task was cancelled in its sleep and has finished normally.
C10_Witness ==
    \E i \in DOMAIN task :
        /\ task[i].state = "done"
        /\ task[i].cancelled_at = "sleeping"
        /\ task[i].outcome = "normal"

(***************************************************************************)
(* The discrete channels under every source of reports: direct calls,      *)
(* report_default, the baseline of connect() and the polls.                *)
(***************************************************************************)
\* Replies of the monitoring system: one reading per sensor, none or the first
\* one raised.
MoncsReplies ==
    {[status |-> [messages |-> NoErrors, status |-> "ENABLED"], timestamp |-> 0,
      data |-> [i \in 1..MON_NUM_SENSORS |-> IF i <= k THEN 1 ELSE 0]] : k \in 0..1}

Call_report_operational_mode ==
    \E subsystem \in {"AMCS"}, mode \in DOMAIN OperationalMode :
        /\ Commit("report_operational_mode", <<subsystem, mode>>,
                  report_operational_mode(Begin, subsystem, OperationalMode[mode]))
        /\ UNCHANGED mvars

Call_connect_baseline ==
    \E mode \in ComPowerModes :
        /\ Commit("connect", <<mode>>, connect_baseline(Begin, mode))
        /\ UNCHANGED mvars

Call_request_llc_status_and_report ==
    \E llc_name \in {"AMCS", "MONCS"} :
        \E llc_status \in IF llc_name = "AMCS" THEN AmcsReplies ELSE MoncsReplies :
            /\ Commit("request_llc_status_and_report", <<llc_name, llc_status>>,
                      request_llc_status_and_report(Begin, llc_name, llc_status))
            /\ UNCHANGED mvars

NextDiscrete ==
    \/ Call_report_state_azimuth_axis
    \/ Call_report_state_brake_engaged
    \/ Call_report_interlocks
    \/ Call_report_operational_mode
    \/ Call_report_default
    \/ Call_connect_baseline
    \/ Call_request_llc_status_and_report

SpecDiscrete == Init /\ [][NextDiscrete]_vars

\* What channel ch has delivered last, followed by what the step delivers on it.
Delivered(ch) ==
    last[ch] \o [i \in 1..Len(On(emitted', ch)) |-> On(emitted', ch)[i].payload]

NoRepeat(ch) ==
    \A i \in 1..(Len(Delivered(ch)) - 1) : Delivered(ch)[i] # Delivered(ch)[i + 1]

\* C3 as stated: no discrete channel ever delivers the same value twice in a row.
C3_Original == [][\A ch \in DiscreteChannels : NoRepeat(ch)]_vars

\* C3 amended: no discrete channel delivers the same value twice in a row, save
\* that report_default publishes the stored interlocks without comparing them
\* and so may repeat the value the interlock channel delivered last.
C3_NoRepeatedDelivery ==
    [][\A ch \in DiscreteChannels :
           (ch = <<"interlock", "interlock">> /\ call'.op = "report_default") \/ NoRepeat(ch)]_vars

\* The baseline of connect() after report_default: the azimuth state is
\* delivered anew, the brake bitmask 0, delivered last, is not.
C3_Witness ==
    /\ call.op = "connect"
    /\ On(emitted, <<"state", "azimuth_axis">>) # <<>>
    /\ On(emitted, <<"state", "brake_engaged">>) = <<>>
    /\ last[<<"state", "brake_engaged">>] = <<0>>


(***************************************************************************)
(* Periodic tasks: exceptions and failed polls.                            *)
(***************************************************************************)
\* The task set is started anew: start_periodic_tasks has replaced the tasks.
StartedAnew == lc.op = "connect" /\ task' = NewTasks(mtdome_com) /\ task' # task

C11_Step ==
    \A i \in DOMAIN task :
        /\ (/\ task[i].state # "done"
            /\ i \in DOMAIN task'
            /\ task'[i].state = "done" /\ task'[i].outcome = "stopped") =>
               \A j \in DOMAIN task \ {i} : j \in DOMAIN task' /\ task'[j] = task[j]
        /\ (task[i].state = "done" /\ task[i].outcome = "stopped") =>
               \/ i \notin DOMAIN task'
               \/ task'[i] = task[i]
               \/ StartedAnew

\* C11: when the body of a periodic task raises an exception other than the
\* cancellation, that step ends this task alone and changes no other task; the
\* ended task never calls its method again unless the task set is started anew.
C11_OnlyThatTaskEnds == [][C11_Step]_vars

\* One task was ended by an exception of its method; another has since polled
\* and sleeps, a third is in its method.
C11_Witness ==
    \E i, j, k \in DOMAIN task :
        /\ task[i].state = "done" /\ task[i].outcome = "stopped"
        /\ task[j].state = "sleeping"
        /\ task[k].state = "awaiting"


C12_Step ==
    \A i \in DOMAIN task :
        (/\ task[i].state = "awaiting"
         /\ i \in DOMAIN task' /\ task'[i].caught = "ValueError") =>
            /\ task[i].method \in StatusMethods
            /\ UNCHANGED <<status, last, call, emitted, raised>>
            /\ task'[i].state = "sleeping" /\ ~task'[i].must_cancel
            /\ \A j \in DOMAIN task \ {i} : task'[j] = task[j]

Labels == {"STOPPED", "STOPPED_BRAKED", "CRAWLING", "PARKED", "MOVING", "STATIONARY", "ABC"}

\* The status replies tried: every label of labels without error, and the
\* labels of with_errors with every list of up to MaxMessages messages.
StatusReplies(labels, with_errors) ==
    {llc_status \in
         [messages : UNION {[1..n -> {[code |-> 0, description |-> "No Errors"],
                                      [code |-> 1, description |-> "Errors 1"],
                                      [code |-> 2, description |-> "Errors 2"]}] :
                               n \in 0..MaxMessages},
          status : labels] :
        llc_status.messages = NoErrors \/ llc_status.status \in with_errors}

\* _check_errors_and_report with a status of the azimuth, the elevation or the
\* aperture shutter; the call is recorded under the method it dispatches to.
Call_check_errors_and_report ==
    \E llc_name \in {"AMCS", "LWSCS", "APSCS"} :
        \E llc_status \in
               CASE llc_name = "AMCS" -> StatusReplies(Labels, {"MOVING", "ABC"})
                 [] llc_name = "LWSCS" -> StatusReplies(Labels, {"PARKED"})
                 [] OTHER -> StatusReplies(
                                 [1..APSCS_NUM_SHUTTERS ->
                                     {"STOPPED", "CRAWLING", "PARKED", "STATIONARY", "ABC"}],
                                 {[i \in 1..APSCS_NUM_SHUTTERS |-> "STOPPED"]}) :
            /\ Commit(CASE llc_name = "AMCS" -> "_check_errors_and_report_azimuth"
                        [] llc_name = "LWSCS" -> "_check_errors_and_report_elevation"
                        [] OTHER -> "_check_errors_and_report_aperture_shutter",
                      <<llc_status>>, _check_errors_and_report(Begin, llc_name, llc_status))
            /\ UNCHANGED mvars

NextClassify == Call_check_errors_and_report

SpecClassify == Init /\ [][NextClassify]_vars

\* The Status field and the signal of each classifying method.
Classified ==
    [_check_errors_and_report_azimuth |->
         [field |-> "azimuthAxis", signal |-> "azimuth_axis"],
     _check_errors_and_report_elevation |->
         [field |-> "elevationAxis", signal |-> "elevation_axis"],
     _check_errors_and_report_aperture_shutter |->
         [field |-> "apertureShutter", signal |-> "aperture_shutter"]]

\* "code=description" of message i.
Rendered(messages, i) == ToString(messages[i].code) \o "=" \o messages[i].description

\* The first n messages rendered and joined by ", ".
RECURSIVE Joined(_, _)
Joined(messages, n) ==
    IF n = 0 THEN ""
    ELSE IF n = 1 THEN Rendered(messages, 1)
    ELSE Joined(messages, n - 1) \o ", " \o Rendered(messages, n)

C13_Step ==
    call'.op \in DOMAIN Classified =>
        LET messages  == call'.args[1].messages
            has_error == status'.state[Classified[call'.op].field] = EnabledState["FAULT"]
            codes     == On(emitted', <<"fault_code", Classified[call'.op].signal>>)
        IN  /\ raised' = ""
            /\ status'.state[Classified[call'.op].field]
                   \in {EnabledState["FAULT"], EnabledState["ENABLED"]}
            /\ has_error <=> (Len(messages) # 1 \/ messages[1].code # 0)
            /\ Len(codes) = 1
            /\ codes[1].payload = IF has_error THEN Joined(messages, Len(messages)) ELSE ""

\* C13: the messages are an error exactly when their number is not 1 or the
\* single message's code is not 0 (an empty list is an error and raises
\* nothing); the fault code is "" without error and otherwise every message as
\* "code=description", joined by ", " in the order of the list.
C13_FaultClassification == [][C13_Step]_vars

\* The two messages of the test are reported as a fault of the azimuth.
C13_Witness ==
    /\ call.op = "_check_errors_and_report_azimuth"
    /\ Len(call.args[1].messages) = 2
    /\ status.state.azimuthAxis = EnabledState["FAULT"]
    /\ On(emitted, <<"fault_code", "azimuth_axis">>)
           = <<Event(<<"fault_code", "azimuth_axis">>, "1=Errors 1, 2=Errors 2")>>


\* What a label stands for: the member it names, else its legacy target, else
\* nothing.
Translated(label) ==
    CASE label \in MotionStateNames -> label
      [] label = "STATIONARY" -> "STOPPED_BRAKED"
      [] OTHER -> None

\* The labels of a status, one per shutter or a single one.
LabelsOf(op, llc_status) ==
    IF op = "_check_errors_and_report_aperture_shutter" THEN llc_status.status
    ELSE <<llc_status.status>>

C14_Step ==
    (call'.op \in DOMAIN Classified /\ call'.args[1].messages = NoErrors) =>
        LET labels  == LabelsOf(call'.op, call'.args[1])
            states  == [i \in 1..Len(labels) |-> Translated(labels[i])]
            motions == On(emitted', <<"motion", Classified[call'.op].signal>>)
        IN  /\ raised' = ""
            /\ IF \E i \in 1..Len(labels) : states[i] = None
                   THEN motions = <<>> /\ Len(call'.logged) = 1
               ELSE /\ call'.logged = <<>>
                    /\ Len(motions) = 1
                    /\ motions[1].payload[1]
                           = IF call'.op = "_check_errors_and_report_aperture_shutter"
                                 THEN states ELSE states[1]

\* C14: without error, a label naming a MotionState member is published as that
\* member and a legacy label as its target (STATIONARY as STOPPED_BRAKED); any
\* other label raises nothing, logs one error and publishes no motion event, and
\* one such label among the shutters' suppresses the motion event of them all.
C14_MotionTranslation == [][C14_Step]_vars

\* One shutter's label is unknown, the other's is legacy: one error logged, no
\* motion event.
C14_Witness ==
    /\ call.op = "_check_errors_and_report_aperture_shutter"
    /\ call.args[1].status = <<"STATIONARY", "ABC">>
    /\ call.logged = <<"ABC">>
    /\ On(emitted, <<"motion", "aperture_shutter">>) = <<>>
    /\ On(emitted, <<"fault_code", "aperture_shutter">>) # <<>>

\* The states in position, per subsystem.
InPosition ==
    [azimuth_axis     |-> {"STOPPED", "STOPPED_BRAKED", "CRAWLING", "PARKED"},
     elevation_axis   |-> {"STOPPED", "STOPPED_BRAKED", "CRAWLING"},
     aperture_shutter |-> {"STOPPED", "STOPPED_BRAKED"}]

C15_Step ==
    call'.op \in DOMAIN Classified =>
        LET signal  == Classified[call'.op].signal
            motions == On(emitted', <<"motion", signal>>)
        IN  \A e \in 1..Len(motions) :
                LET motion_state == motions[e].payload[1]
                    in_position  == motions[e].payload[2]
                IN  IF signal = "aperture_shutter"
                        THEN /\ Len(in_position) = Len(motion_state)
                             /\ \A i \in 1..Len(motion_state) :
                                    in_position[i] <=> motion_state[i] \in InPosition[signal]
                    ELSE in_position <=> motion_state \in InPosition[signal]

\* C15: the in_position flag of a motion event the Model publishes is decided by
\* the motion state alone: azimuth STOPPED, STOPPED_BRAKED, CRAWLING, PARKED;
\* elevation STOPPED, STOPPED_BRAKED, CRAWLING; each shutter STOPPED,
\* STOPPED_BRAKED.
C15_InPosition == [][C15_Step]_vars

\* The elevation is PARKED and not in position.
C15_Witness ==
    /\ call.op = "_check_errors_and_report_elevation"
    /\ On(emitted, <<"motion", "elevation_axis">>)
           = <<Event(<<"motion", "elevation_axis">>, <<"PARKED", FALSE>>)>>


Alias_report_interlocks ==
    \E o \in DOMAIN heap.value, interlocks \in Interlocks :
        /\ \/ o = heap.caller /\ interlocks = heap.value[o]
           \/ o \notin {heap.status, heap.panel}
        /\ LET R == report_interlocks(Begin, interlocks)
           IN  /\ Record("report_interlocks", <<interlocks>>, R)
               /\ heap' = IF R.emitted # <<>>
                              THEN [value |-> [heap.value EXCEPT ![o] = interlocks],
                                    status |-> o, caller |-> o, panel |-> o]
                          ELSE [heap EXCEPT !.value[o] = interlocks, !.caller = o]
        /\ UNCHANGED <<loop, mvars, tab_figure, tab_selector>>

\* report_default emits self.status.interlocks: the panel receives the stored
\* list.
Alias_report_default ==
    /\ Record("report_default", <<>>, report_default(Begin))
    /\ heap' = [heap EXCEPT !.panel = heap.status]
    /\ UNCHANGED <<loop, mvars, tab_figure, tab_selector>>

\* The caller or the panel sets or clears one entry of the list it holds.
Alias_mutate ==
    \E o \in {heap.caller, heap.panel} \ {""}, i \in 1..MON_NUM_SENSORS :
        /\ heap' = [heap EXCEPT !.value[o][i] = ~@]
        /\ status' = IF o = heap.status THEN [status EXCEPT !.interlocks[i] = ~@] ELSE status
        /\ UNCHANGED <<last, call, emitted, raised, prev, loop, tab_figure, tab_selector>>
        /\ UNCHANGED mvars

NextAlias == Alias_report_interlocks \/ Alias_report_default \/ Alias_mutate

SpecAlias == Init /\ [][NextAlias]_vars

\* C17: the list Status holds is neither the list a caller kept nor the list a
\* panel received, and so a caller or panel changing its list leaves Status as
\* the last report left it.
C17_StatusNotShared ==
    [][/\ heap'.status \notin {heap'.caller, heap'.panel}
       /\ (call' = call /\ emitted' = emitted /\ prev' = prev) => status' = status]_vars


(***************************************************************************)
(* The panels.  Every callback connected to a signal is a qasync asyncSlot *)
(* coroutine without an await: emit() calls the slot, which only creates a *)
(* task for the coroutine; the event loop runs the tasks it was given      *)
(* first come, first served, each in one step.                             *)
(***************************************************************************)
\* Slip: the callbacks are plain slots, run by emit() itself.
Panel_publish_inline(op, args, R) ==
    /\ Len(loop.ready) + Len(R.emitted) <= MaxPending
    /\ Record(op, args, R)
    /\ loop' = [loop EXCEPT !.shown =
                   [ch \in Channels |-> IF On(R.emitted, ch) = <<>> THEN @[ch]
                                        ELSE <<On(R.emitted, ch)[Len(On(R.emitted, ch))].payload>>]]
    /\ UNCHANGED <<heap, mvars, tab_figure, tab_selector>>

\* A call of the Reporter with the panels connected: each emit schedules the
\* reaction to its event.
Panel_publish(op, args, R) ==
    /\ Len(loop.ready) + Len(R.emitted) <= MaxPending
    /\ Record(op, args, R)
    /\ loop' = [loop EXCEPT !.ready = @ \o R.emitted]
    /\ UNCHANGED <<heap, mvars, tab_figure, tab_selector>>

\* A report of the azimuth state or of the interlocks (none or the first one
\* raised), or the poller classifying a status of the azimuth, without error or
\* with a fault.
Panel_report ==
    \/ \E state \in {EnabledState["ENABLED"], EnabledState["FAULT"]} :
           Panel_publish("report_state_azimuth_axis", <<state>>,
                         report_state_azimuth_axis(Begin, state))
    \/ \E interlocks \in {x \in Interlocks : \A i \in 2..MON_NUM_SENSORS : ~x[i]} :
           Panel_publish("report_interlocks", <<interlocks>>,
                         report_interlocks(Begin, interlocks))
    \/ \E llc_status \in {r \in StatusReplies({"MOVING"}, {"MOVING"}) : Len(r.messages) = 1} :
           Panel_publish("_check_errors_and_report_azimuth", <<llc_status>>,
                         _check_errors_and_report_azimuth(Begin, llc_status))

\* Slip: the event loop runs the task created last.
Panel_react_newest_first ==
    /\ loop.ready # <<>>
    /\ loop' = [ready |-> SubSeq(loop.ready, 1, Len(loop.ready) - 1),
                shown |-> [loop.shown EXCEPT ![loop.ready[Len(loop.ready)].ch] =
                              <<loop.ready[Len(loop.ready)].payload>>]]
    /\ UNCHANGED <<status, last, call, emitted, raised, prev, heap, mvars, tab_figure, tab_selector>>

\* The event loop runs the oldest reaction: the callback updates its widgets.
Panel_react ==
    /\ loop.ready # <<>>
    /\ loop' = [ready |-> Tail(loop.ready),
                shown |-> [loop.shown EXCEPT ![Head(loop.ready).ch] = <<Head(loop.ready).payload>>]]
    /\ UNCHANGED <<status, last, call, emitted, raised, prev, heap, mvars, tab_figure, tab_selector>>

NextPanel == Panel_report \/ Panel_react

SpecPanel == Init /\ [][NextPanel]_vars

\* The reactions left when the one at position i has run.
Without(ready, i) == SubSeq(ready, 1, i - 1) \o SubSeq(ready, i + 1, Len(ready))

C18_Step ==
    Len(loop'.ready) < Len(loop.ready) =>
        \E i \in 1..Len(loop.ready) :
            /\ loop'.ready = Without(loop.ready, i)
            /\ \A j \in 1..(i - 1) : loop.ready[j].ch # loop.ready[i].ch
            /\ loop'.shown[loop.ready[i].ch] = <<loop.ready[i].payload>>

C19_Step ==
    /\ loop'.shown # loop.shown =>
          /\ Len(loop'.ready) < Len(loop.ready)
          /\ UNCHANGED <<status, last, call, emitted, raised>>
    /\ Len(loop'.ready) > Len(loop.ready) =>
          /\ loop'.ready = loop.ready \o emitted'
          /\ loop'.shown = loop.shown
          /\ \A e \in 1..Len(emitted') :
                emitted'[e].ch = <<"state", "azimuth_axis">> =>
                    /\ last[emitted'[e].ch] # <<emitted'[e].payload>>
                    /\ status'.state.azimuthAxis = emitted'[e].payload

NextLive ==
    \/ Connect_Begin /\ \A h \in DOMAIN client : client[h] = "none"
    \/ Connect_Success
    \/ Disconnect_Begin
    \/ Lc_Resume_Cancelled
    \/ Lc_Resume
    \/ \E i \in DOMAIN task : Task_Start(i)
    \/ \E i \in DOMAIN task : Task_Wake(i)
    \/ \E i \in DOMAIN task : Task_PollReports(i)
    \/ \E i \in DOMAIN task : Task_PollFails(i)
    \/ \E i \in DOMAIN task : Task_MethodReturns(i)
    \/ \E i \in DOMAIN task : Task_MethodRaises(i)
    \/ \E i \in DOMAIN task : Task_Cancelled(i)

SpecLive ==
    /\ Init /\ [][NextLive]_vars
    /\ \A i \in DOMAIN NewTasks(0) :
          WF_vars(i \in DOMAIN task /\ (Task_Start(i) \/ Task_Wake(i) \/ Task_Cancelled(i)))

\* C20: a periodic task that has been created or sleeps will call its method
\* (again), unless it is cancelled or replaced first: as long as the Model
\* stays connected and no exception ends the task, every status request, the
\* check for replies and the processing of the command queue run again and
\* again.
C20_PollsForever ==
    \A i \in DOMAIN NewTasks(0) :
        (i \in DOMAIN task /\ task[i].state \in {"created", "sleeping"})
            ~> (i \notin DOMAIN task \/ task[i].state \in {"awaiting", "done"})

\* The azimuth task has polled, slept and is in its method again.
C20_Witness ==
    \E i \in DOMAIN task :
        /\ task[i].method = "statusAMCS" /\ task[i].state = "awaiting"
        /\ call.op = "statusAMCS"
        /\ is_connected


(***************************************************************************)
(* TabFigure: the cache of the realtime points and the figure.             *)
(***************************************************************************)
\* FigureConstant.append_data of a realtime figure of num_points points: the
\* point is added last and the oldest ones beyond num_points leave.
figure_append_data(points, value, num_points) ==
    LET all == Append(points, value)
    IN  IF Len(all) > num_points
            THEN SubSeq(all, Len(all) - num_points + 1, Len(all))
            ELSE all

\* TabFigure.append_data(new_data), from its entry idx on: pop(0) of an empty
\* list raises IndexError and ends the loop.
RECURSIVE append_data(_, _, _)
append_data(W, new_data, idx) ==
    IF idx > Len(new_data) THEN W
    ELSE IF W._data[idx] = <<>> THEN [W EXCEPT !.raised = "IndexError"]
    ELSE LET value == new_data[idx]
             w1 == [W EXCEPT !._data[idx] = Append(Tail(@), value)]
             w2 == IF w1.visible
                       THEN [w1 EXCEPT !._figure[idx] =
                                figure_append_data(@, value, W.num_realtime)]
                       ELSE w1
         IN  append_data(w2, new_data, idx + 1)

\* The points of one cached list are given to line idx of the figure in turn.
RECURSIVE DrawPoints(_, _, _)
DrawPoints(figure, points, num_points) ==
    IF points = <<>> THEN figure
    ELSE DrawPoints(figure_append_data(figure, Head(points), num_points),
                    Tail(points), num_points)

\* TabFigure.__init__(title, model, title_y, legends, num_realtime) with two
\* legends: the cache holds num_realtime zeros per legend, the figure no point.
Figure_init ==
    /\ ~tab_figure.constructed
    /\ \E num_realtime \in 0..MaxRealtime :
          tab_figure' = [constructed |-> TRUE, num_realtime |-> num_realtime,
                         _data |-> [idx \in 1..2 |-> Repeat(0, num_realtime)],
                         _figure |-> [idx \in 1..2 |-> <<>>],
                         visible |-> FALSE, raised |-> ""]
    /\ UNCHANGED <<status, last, call, emitted, raised, prev, heap, loop, tab_selector, mvars>>

\* append_data(new_data) is called with one value per legend.
Figure_append_data ==
    /\ tab_figure.constructed
    /\ \E new_data \in [DOMAIN tab_figure._data -> Samples] :
          tab_figure' = append_data([tab_figure EXCEPT !.raised = ""], new_data, 1)
    /\ UNCHANGED <<status, last, call, emitted, raised, prev, heap, loop, tab_selector, mvars>>

\* setVisible(True): Qt delivers the show event, showEvent draws the cache.
Figure_showEvent ==
    /\ tab_figure.constructed /\ ~tab_figure.visible
    /\ tab_figure' =
          [tab_figure EXCEPT !.visible = TRUE, !.raised = "",
              !._figure = [idx \in DOMAIN tab_figure._data |->
                              DrawPoints(tab_figure._figure[idx], tab_figure._data[idx],
                                         tab_figure.num_realtime)]]
    /\ UNCHANGED <<status, last, call, emitted, raised, prev, heap, loop, tab_selector, mvars>>

\* setVisible(False)
Figure_hide ==
    /\ tab_figure.constructed /\ tab_figure.visible
    /\ tab_figure' = [tab_figure EXCEPT !.visible = FALSE, !.raised = ""]
    /\ UNCHANGED <<status, last, call, emitted, raised, prev, heap, loop, tab_selector, mvars>>

NextFigure == Figure_init \/ Figure_append_data \/ Figure_showEvent \/ Figure_hide

SpecFigure == Init /\ [][NextFigure]_vars

\* C21: append_data keeps the cache of every series at exactly num_realtime
\* points, for every num_realtime >= 0: the call does not raise, the oldest
\* point has left and the new one is last; the new point reaches the figure
\* only while the tab is visible, and when the tab is shown the figure displays
\* the cache, the points appended while hidden included.
C21_CacheKept ==
    [][tab_figure.constructed =>
          /\ tab_figure'.raised = ""
          /\ \A idx \in DOMAIN tab_figure'._data :
                Len(tab_figure'._data[idx]) = tab_figure'.num_realtime
          /\ (tab_figure'.visible /\ ~tab_figure.visible) =>
                tab_figure'._figure = tab_figure'._data
          /\ (~tab_figure.visible /\ ~tab_figure'.visible) =>
                tab_figure'._figure = tab_figure._figure
          /\ (tab_figure.visible /\ tab_figure'.visible) =>
                \A idx \in DOMAIN tab_figure._data :
                    /\ tab_figure'._data[idx] # <<>>
                    /\ tab_figure'._data[idx] =
                          Append(Tail(tab_figure._data[idx]),
                                 tab_figure'._data[idx][Len(tab_figure'._data[idx])])
                    /\ tab_figure'._figure[idx] =
                          figure_append_data(tab_figure._figure[idx],
                              tab_figure'._data[idx][Len(tab_figure'._data[idx])],
                              tab_figure.num_realtime)]_vars


(***************************************************************************)
(* TabSelector: the selection buttons.                                     *)
(***************************************************************************)
\* TabSelector.get_selection(), from button idx on: the indices of the checked
\* buttons in the order of the buttons.
RECURSIVE get_selection(_, _)
get_selection(checked, idx) ==
    IF idx \notin DOMAIN checked THEN <<>>
    ELSE (IF checked[idx] THEN <<idx>> ELSE <<>>) \o get_selection(checked, idx + 1)

\* TabSelector.__init__(title, model, names): set_button creates each button
\* unchecked and enabled.
Selector_init ==
    /\ ~tab_selector.constructed
    /\ tab_selector' = [constructed |-> TRUE,
                        checked |-> [idx \in 0..(MaxButtons - 1) |-> FALSE],
                        enabled |-> [idx \in 0..(MaxButtons - 1) |-> TRUE],
                        returned |-> <<>>, call |-> <<"__init__">>]
    /\ UNCHANGED <<status, last, call, emitted, raised, prev, heap, loop, tab_figure, mvars>>

\* Slip: select also sets the buttons that are disabled.
Selector_select_disabled_too ==
    /\ tab_selector.constructed
    /\ \E selections \in SUBSET (0..MaxButtons) :
          tab_selector' =
              [tab_selector EXCEPT
                  !.checked = [idx \in DOMAIN @ |-> idx \in selections],
                  !.call = <<"select", selections>>]
    /\ UNCHANGED <<status, last, call, emitted, raised, prev, heap, loop, tab_figure, mvars>>

\* select(selections), called directly, by _callback_select_all with every
\* index or by _callback_reset_all with none; an index beyond the buttons may
\* be named.
Selector_select ==
    /\ tab_selector.constructed
    /\ \E selections \in SUBSET (0..MaxButtons) :
          tab_selector' =
              [tab_selector EXCEPT
                  !.checked = [idx \in DOMAIN @ |->
                                  IF tab_selector.enabled[idx] THEN idx \in selections
                                  ELSE @[idx]],
                  !.call = <<"select", selections>>]
    /\ UNCHANGED <<status, last, call, emitted, raised, prev, heap, loop, tab_figure, mvars>>

Selector_set_selection_enabled ==
    /\ tab_selector.constructed
    /\ \E index \in DOMAIN tab_selector.enabled, is_enabled \in BOOLEAN :
          tab_selector' = [tab_selector EXCEPT !.enabled[index] = is_enabled,
                                               !.call = <<"set_selection_enabled", index, is_enabled>>]
    /\ UNCHANGED <<status, last, call, emitted, raised, prev, heap, loop, tab_figure, mvars>>

Selector_get_selection ==
    /\ tab_selector.constructed
    /\ tab_selector' = [tab_selector EXCEPT !.returned = get_selection(tab_selector.checked, 0),
                                            !.call = <<"get_selection">>]
    /\ UNCHANGED <<status, last, call, emitted, raised, prev, heap, loop, tab_figure, mvars>>

NextSelector ==
    \/ Selector_init
    \/ Selector_select
    \/ Selector_set_selection_enabled
    \/ Selector_get_selection

SpecSelector == Init /\ [][NextSelector]_vars

\* The indices in s are exactly those of X, in ascending order.
Ascending(s, X) ==
    /\ {s[k] : k \in DOMAIN s} = X
    /\ \A j, k \in DOMAIN s : j < k => s[j] < s[k]

C22_Step ==
    tab_selector.constructed =>
        /\ \A idx \in DOMAIN tab_selector.checked :
              ~tab_selector.enabled[idx] =>
                  tab_selector'.checked[idx] = tab_selector.checked[idx]
        /\ tab_selector'.call[1] = "select" =>
              \A idx \in DOMAIN tab_selector.checked :
                  tab_selector.enabled[idx] =>
                      (tab_selector'.checked[idx] <=> idx \in tab_selector'.call[2])
        /\ tab_selector'.call[1] = "get_selection" =>
              /\ Ascending(tab_selector'.returned,
                           {idx \in DOMAIN tab_selector.checked : tab_selector.checked[idx]})
              /\ \A idx \in DOMAIN tab_selector.checked :
                    (~tab_selector.enabled[idx] /\ ~tab_selector.checked[idx]) =>
                        \A k \in DOMAIN tab_selector'.returned :
                            tab_selector'.returned[k] # idx

\* C22: select(S) checks every enabled button exactly when its index is in S
\* and changes no disabled button; get_selection() returns the indices of the
\* checked buttons in ascending order, so an index disabled while unchecked is
\* not returned whatever selections name it.
C22_Selection == [][C22_Step]_vars

\* Button 1 was disabled while unchecked, a selection naming every button was
\* made, and get_selection has returned the two others.
C22_Witness ==
    /\ tab_selector.constructed
    /\ ~tab_selector.enabled[1] /\ ~tab_selector.checked[1]
    /\ tab_selector.checked[0] /\ tab_selector.checked[2]
    /\ tab_selector.call = <<"get_selection">>
    /\ tab_selector.returned = <<0, 2>>


(***************************************************************************)
(* The baseline of a connection and its polls.                             *)
(***************************************************************************)
\* The step reports the result of a poll.
PollReported ==
    /\ call'.op \in StatusMethods
    /\ <<call', emitted', status', prev'>> # <<call, emitted, status, prev>>

C23_Step ==
    /\ \A h \in DOMAIN client :
          (client[h] # "connected" /\ client'[h] = "connected") =>
              /\ lc.pc = "connecting" /\ mtdome_com = h
              /\ call'.op = "connect" /\ raised' = ""
              /\ status'.state.azimuthAxis = EnabledState["ENABLED"]
              /\ status'.state.elevationAxis = EnabledState["ENABLED"]
              /\ status'.state.apertureShutter = EnabledState["ENABLED"]
              /\ status'.state.brakeEngaged = 0
              /\ status'.state.lockingPinsEngaged = 0
              /\ \A f \in {"azimuth_axis", "elevation_axis", "aperture_shutter"} :
                    On(emitted', <<"fault_code", f>>) = <<Event(<<"fault_code", f>>, "")>>
              /\ \/ \A i \in DOMAIN task' : task'[i].state = "created"
                 \/ /\ lc'.pc = "await_task"
                    /\ \A i \in DOMAIN task' : i \in DOMAIN task /\ task'[i].state = task[i].state
    /\ PollReported =>
          \E i \in DOMAIN task :
              /\ task[i].method = call'.op /\ task[i].state = "awaiting"
              /\ task[i].using # 0 /\ client[task[i].using] = "connected"

\* C23: the step in which a connection is made reports the baseline (azimuth,
\* elevation and shutter ENABLED, their fault codes "", brake and locking-pin
\* bitmasks 0) and starts no task the step found; the task set it creates has
\* not run yet.  A poll result is reported only on a connection made in an
\* earlier step, that is after the baseline of that connection.
C23_BaselineFirst == [][C23_Step]_vars

\* The second connection has been made and its baseline reported; the azimuth
\* poll of that connection has since reported the fault.
C23_Witness ==
    /\ client[1] = "connected" /\ client[2] = "connected" /\ mtdome_com = 2
    /\ call.op = "statusAMCS"
    /\ status.state.azimuthAxis = EnabledState["FAULT"]
    /\ status.state.brakeEngaged = 0


(***************************************************************************)
(* What one classified cycle publishes.                                    *)
(***************************************************************************)
C24_Step ==
    call'.op \in DOMAIN Classified =>
        LET messages  == call'.args[1].messages
            has_error == Len(messages) # 1 \/ messages[1].code # 0
            field     == Classified[call'.op].field
            signal    == Classified[call'.op].signal
            expected  == IF has_error THEN EnabledState["FAULT"] ELSE EnabledState["ENABLED"]
            states    == On(emitted', <<"state", signal>>)
            codes     == On(emitted', <<"fault_code", signal>>)
            motions   == On(emitted', <<"motion", signal>>)
        IN  /\ status'.state[field] = expected
            /\ states = IF status.state[field] = expected THEN <<>>
                        ELSE <<Event(<<"state", signal>>, expected)>>
            /\ Len(codes) = 1
            /\ has_error => codes[1].payload = Joined(messages, Len(messages))
            /\ ~has_error => codes[1].payload = ""
            /\ has_error => motions = <<>>
            /\ Len(motions) <= 1
            /\ emitted' = states \o codes \o motions

\* C24: a classified cycle of the azimuth, the elevation or the aperture
\* shutter reports the enabled-state (FAULT with an error, ENABLED without) and
\* publishes the fault code once (the joined string with an error, "" without)
\* whatever the motion label is; with an error it publishes no motion event,
\* without one at most one, and nothing else is published.
C24_ClassifiedCycle == [][C24_Step]_vars

\* The azimuth reports an error under a label nobody knows: FAULT and the
\* fault code are reported, no motion, no error logged.
C24_Witness ==
    /\ call.op = "_check_errors_and_report_azimuth"
    /\ call.args[1].status = "ABC"
    /\ call.args[1].messages = <<[code |-> 2, description |-> "Errors 2"]>>
    /\ call.logged = <<>>
    /\ emitted = <<Event(<<"state", "azimuth_axis">>, EnabledState["FAULT"]),
                   Event(<<"fault_code", "azimuth_axis">>, "2=Errors 2")>>

(***************************************************************************)
(* What a poll does with the status of every lower level component: the    *)
(* operational mode, the configuration, the classification and the route   *)
(* its payload takes.                                                      *)
(***************************************************************************)
\* request_llc_status_and_report once the status is retrieved, for every member
\* of LlcName.  The reply carries operationalMode or not (azimuth and crane,
\* the first and the last SubSystemId), appliedConfiguration or not (azimuth,
\* elevation, aperture shutter), and the
\* payload of its component: sensor readings of the monitoring system, the
\* flags of the capacitor banks with fuseIntervention as booleans (variant 0
\* and 1) or as floats (2 and 3), a position for the others.  The call is
\* recorded with the component, the type of the readings and the reply.
Poll_request_llc_status_and_report ==
    \E llc_name \in LlcName, mode \in {None} \cup DOMAIN OperationalMode,
       jmax \in {-1, MaxConfig}, variant \in 0..3 :
        /\ mode # None => llc_name = "AMCS" \/ (llc_name = "OBC" /\ mode = "NORMAL")
        /\ jmax >= 0 => llc_name \in {"AMCS", "LWSCS", "APSCS"}
        /\ variant > 1 => llc_name = "CBCS"
        /\ variant > 0 => llc_name \in {"MONCS", "CBCS"}
        /\ LET label == IF llc_name = "APSCS"
                            THEN [i \in 1..APSCS_NUM_SHUTTERS |-> "STOPPED"]
                            ELSE "STOPPED"
               llc_status ==
                   [status |-> [messages |-> NoErrors, status |-> label]
                                   @@ (IF mode = None THEN <<>>
                                       ELSE [operationalMode |-> mode]),
                    timestamp |-> 0]
                   @@ (IF jmax < 0 THEN <<>>
                       ELSE [appliedConfiguration |->
                                [jmax |-> jmax, amax |-> 0, vmax |-> jmax]])
                   @@ (CASE llc_name = "MONCS" ->
                                [data |-> [i \in 1..MON_NUM_SENSORS |->
                                              IF i <= variant THEN 1 ELSE 0]]
                         [] llc_name = "CBCS" ->
                                [dcBusVoltage |-> 0]
                                @@ [StatusDefault.capacitor_bank EXCEPT !.fuseIntervention =
                                       [i \in 1..CBCS_NUM_CAPACITOR_BANKS |->
                                           CASE variant = 0 -> FALSE
                                             [] variant = 1 -> i = 1
                                             [] variant = 2 -> 0
                                             [] OTHER -> IF i = 1 THEN 1 ELSE 0]]
                         [] OTHER -> [positionActual |-> 0])
           IN  /\ Commit("request_llc_status_and_report",
                         <<llc_name, IF variant > 1 THEN "float" ELSE "bool", llc_status>>,
                         request_llc_status_and_report(Begin, llc_name, llc_status))
               /\ UNCHANGED mvars

NextPoll == Poll_request_llc_status_and_report

SpecPoll == Init /\ [][NextPoll]_vars


\* The events of a sequence that were published on a telemetry channel.
OnTelemetry(events) == SelectSeq(events, LAMBDA e : e.ch[1] = "telemetry")

\* A poll that returned: the payload without the four bookkeeping keys takes
\* the one route of its component.
C25_Step ==
    (call'.op = "request_llc_status_and_report" /\ raised' = "") =>
        LET llc_name   == call'.args[1]
            llc_status == call'.args[3]
            forwarded  ==
                [k \in DOMAIN llc_status \
                          {"status", "timestamp", "operationalMode", "appliedConfiguration"} |->
                    llc_status[k]]
            interlocks == On(emitted', <<"interlock", "interlock">>)
        IN  CASE llc_name = "MONCS" ->
                   LET readings == [i \in 1..Len(forwarded.data) |-> forwarded.data[i] = 1]
                   IN  /\ status'.interlocks = readings
                       /\ interlocks = IF status.interlocks = readings THEN <<>>
                                       ELSE <<Event(<<"interlock", "interlock">>, readings)>>
                       /\ OnTelemetry(emitted') = <<>>
                       /\ status'.capacitor_bank = status.capacitor_bank
              [] llc_name = "CBCS" ->
                   LET bank == [f \in DOMAIN forwarded \ {"dcBusVoltage"} |->
                                   IF f = "fuseIntervention"
                                       THEN [i \in 1..Len(forwarded[f]) |->
                                                ToString(forwarded[f][i]) \in {"TRUE", "1"}]
                                       ELSE forwarded[f]]
                   IN  /\ status'.capacitor_bank = bank
                       /\ OnTelemetry(emitted') =
                              <<Event(<<"telemetry", "cbcs_voltage">>, forwarded.dcBusVoltage)>>
                              \o (IF status.capacitor_bank = bank THEN <<>>
                                  ELSE <<Event(<<"telemetry", "cbcs">>, bank)>>)
                       /\ interlocks = <<>>
                       /\ status'.interlocks = status.interlocks
              [] llc_name = "OBC" ->
                   /\ OnTelemetry(emitted') = <<>>
                   /\ interlocks = <<>>
                   /\ status'.interlocks = status.interlocks
                   /\ status'.capacitor_bank = status.capacitor_bank
              [] OTHER ->
                   /\ OnTelemetry(emitted') =
                          <<Event(<<"telemetry", Lower[llc_name]>>, forwarded)>>
                   /\ interlocks = <<>>
                   /\ status'.interlocks = status.interlocks
                   /\ status'.capacitor_bank = status.capacitor_bank

\* C25: after a status fetch the forwarded payload holds none of the keys
\* status, timestamp, operationalMode and appliedConfiguration and takes one
\* route: the monitoring system's as a list of booleans through
\* report_interlocks, the capacitor banks' through report_capacitor_bank with
\* fuseIntervention made booleans, the crane's nowhere, any other on the
\* telemetry channel named after the component.
C25_OneRoute == [][C25_Step]_vars

\* The capacitor banks answered with fuseIntervention as floats, the first one
\* set, and the flags were stored and published as booleans.
C25_Witness ==
    /\ call.op = "request_llc_status_and_report"
    /\ call.args[1] = "CBCS"
    /\ call.args[2] = "float"
    /\ raised = ""
    /\ status.capacitor_bank.fuseIntervention = [i \in 1..CBCS_NUM_CAPACITOR_BANKS |-> i = 1]
    /\ On(emitted, <<"telemetry", "cbcs">>) # <<>>


\* A poll that returned: with operationalMode in the reply only the slot of the
\* component may change, and the event is published when it does; without it
\* no slot changes and nothing is published.
C26_Step ==
    (call'.op = "request_llc_status_and_report" /\ raised' = "") =>
        LET llc_name  == call'.args[1]
            reply     == call'.args[3].status
            published == On(emitted', <<"operational_mode", "subsystem_mode">>)
        IN  /\ Len(status'.operational_modes) = Len(status.operational_modes)
            /\ IF "operationalMode" \in DOMAIN reply
                   THEN LET slot == CHOOSE i \in 1..Len(SubSystemId) : SubSystemId[i] = llc_name
                            mode == IF reply.operationalMode = "NORMAL" THEN 1 ELSE 2
                        IN  /\ status'.operational_modes[slot] = mode
                            /\ \A i \in 1..Len(SubSystemId) :
                                   i # slot =>
                                       status'.operational_modes[i] = status.operational_modes[i]
                            /\ published =
                                   IF status.operational_modes[slot] = mode THEN <<>>
                                   ELSE <<Event(<<"operational_mode", "subsystem_mode">>,
                                                <<llc_name, mode>>)>>
                   ELSE /\ status'.operational_modes = status.operational_modes
                        /\ published = <<>>

\* C26: a poll result with operationalMode changes at most the slot of
\* Status.operational_modes at the position of the component's SubSystemId,
\* leaves the other slots and the length alone and publishes (subsystem, mode)
\* exactly when the slot changed; no two components share a SubSystemId.
C26_ModeSlot ==
    /\ [][C26_Step]_vars
    /\ [](\A a, b \in LlcName :
              (_get_subsystem_id(a) # None /\ _get_subsystem_id(a) = _get_subsystem_id(b))
                  => a = b)

\* The azimuth went from normal to degraded after the crane had reported
\* normal: the first slot changed, the last one kept its mode.
C26_Witness ==
    /\ call.op = "request_llc_status_and_report"
    /\ call.args[1] = "AMCS"
    /\ raised = ""
    /\ status.operational_modes[1] = OperationalMode["DEGRADED"]
    /\ status.operational_modes[Len(SubSystemId)] = OperationalMode["NORMAL"]
    /\ last[<<"operational_mode", "subsystem_mode">>] = <<<<"AMCS", OperationalMode["DEGRADED"]>>>>


\* A poll that returned: the configuration of the azimuth or of the elevation
\* is stored in degrees and published when it differs from the stored one;
\* neither configuration changes otherwise.
C27_Step ==
    (call'.op = "request_llc_status_and_report" /\ raised' = "") =>
        LET llc_name == call'.args[1]
            reply    == call'.args[3]
            carried  == "appliedConfiguration" \in DOMAIN reply
            config   == [name \in {"jmax", "amax", "vmax"} |->
                            reply.appliedConfiguration[name] * DegreesPerRadian]
            amcs     == On(emitted', <<"config", "amcs">>)
            lwscs    == On(emitted', <<"config", "lwscs">>)
        IN  /\ IF carried /\ llc_name = "AMCS"
                   THEN /\ status'.config_amcs = config
                        /\ amcs = IF status.config_amcs = config THEN <<>>
                                  ELSE <<Event(<<"config", "amcs">>, config)>>
                   ELSE /\ status'.config_amcs = status.config_amcs
                        /\ amcs = <<>>
            /\ IF carried /\ llc_name = "LWSCS"
                   THEN /\ status'.config_lwscs = config
                        /\ lwscs = IF status.config_lwscs = config THEN <<>>
                                   ELSE <<Event(<<"config", "lwscs">>, config)>>
                   ELSE /\ status'.config_lwscs = status.config_lwscs
                        /\ lwscs = <<>>

\* C27: a poll result with appliedConfiguration has jmax, amax and vmax
\* converted from radians to degrees once and reported as the azimuth
\* configuration for AMCS (Status.config_amcs) and as the elevation
\* configuration for LWSCS (Status.config_lwscs); for any other component, and
\* without appliedConfiguration, no configuration is published and neither
\* field changes.
C27_Configuration == [][C27_Step]_vars

\* The elevation reported a configuration, which is stored in degrees, while
\* the azimuth configuration is still the default.
C27_Witness ==
    /\ call.op = "request_llc_status_and_report"
    /\ call.args[1] = "LWSCS"
    /\ raised = ""
    /\ status.config_lwscs =
           [jmax |-> MaxConfig * DegreesPerRadian, amax |-> 0,
            vmax |-> MaxConfig * DegreesPerRadian]
    /\ status.config_amcs = ConfigDefault
    /\ On(emitted, <<"config", "lwscs">>) # <<>>


(***************************************************************************)
(* The set of periodic tasks.                                              *)
(***************************************************************************)
\* The periodic tasks that have not finished.
Live == {i \in DOMAIN task : task[i].state # "done"}

\* No two unfinished periodic tasks run the same method.
OneTaskPerMethod == \A i, j \in Live : task[i].method = task[j].method => i = j

\* The methods start_periodic_tasks creates a task for.
PeriodicMethods ==
    StatusMethods \cup {"check_all_commands_have_replies", "process_command_queue"}

\* C28 as stated: whenever connect(), start_periodic_tasks() and disconnect()
\* are not in progress the unfinished periodic tasks are none, or one per entry
\* of all_methods_and_intervals plus the reply watchdog and the command-queue
\* drain; two unfinished periodic tasks never run the same method.
C28_TaskSet ==
    /\ lc.pc = "idle" =>
          \/ Live = {}
          \/ /\ {task[i].method : i \in Live} = PeriodicMethods
             /\ Cardinality(Live) = Len(all_methods_and_intervals) + 2
    /\ OneTaskPerMethod

\* connect() returns without error: the tasks it leaves are the ones it has
\* just created, one per method, none of them started.
C28_Step ==
    (lc.pc # "idle" /\ lc'.pc = "idle" /\ lc'.op = "connect" /\ lc'.error = <<>>) =>
        /\ Live' = DOMAIN task'
        /\ {task'[i].method : i \in Live'} = PeriodicMethods
        /\ Cardinality(Live') = Len(all_methods_and_intervals) + 2
        /\ \A i \in Live' : task'[i].state = "created"

\* C28, amended: a connect() that returns without error leaves one unfinished
\* periodic task per entry of all_methods_and_intervals plus the reply
\* watchdog and the command-queue drain; at every time the unfinished periodic
\* tasks run methods of that set, no two of them the same one (some may have
\* ended, by an exception of their method or cancelled by a disconnect() or
\* connect() that raised).
C28_TaskSetAtMostOne ==
    /\ [][C28_Step]_vars
    /\ [](OneTaskPerMethod /\ {task[i].method : i \in Live} \subseteq PeriodicMethods)

\* A second connect() has cancelled the tasks of the first, waited for them and
\* created its own.
C28_Witness ==
    /\ lc = Idle("connect", <<>>, FALSE)
    /\ mtdome_com = 2
    /\ client[1] = "connected" /\ client[2] = "connected"
    /\ Cardinality(Live) = Len(all_methods_and_intervals) + 2
    /\ \A i \in Live : task[i].state = "created" /\ task[i].com \in {0, 2}


\* C29: cancel_periodic_tasks, and so disconnect() and start_periodic_tasks(),
\* returns normally whatever state each task is in when it is cancelled (not
\* yet started, awaiting its method, sleeping, ended by an exception): no
\* cancellation reaches the caller, and after disconnect() the list of
\* periodic tasks is empty and no task is left unfinished.
C29_CancelReturns ==
    /\ lc.error # <<"CancelledError">>
    /\ (lc.pc = "idle" /\ lc.op = "disconnect") => (periodic_tasks = <<>> /\ Live = {})


\* Every status request in flight was made on a connection that is connected.
PollsOnConnected ==
    \A i \in Live :
        (task[i].method \in StatusMethods /\ task[i].state = "awaiting") =>
            client[task[i].using] = "connected"

\* Every connection that is connected is the one the Model refers to.
ConnectedIsHeld == \A h \in DOMAIN client : client[h] = "connected" => mtdome_com = h

\* C30: in every reachable state, a second connect() on a Connected Model in
\* progress or failed included, a periodic task requests a status on a
\* connection that is connected, and a connection that was connected is
\* disconnected before the Model drops its reference to it.
C30_ConnectedHandle == PollsOnConnected /\ ConnectedIsHeld

=============================================================================
